---- MODULE Spec2Model ----
(***************************************************************************)
(* Sales-call prep assistant: the research / cache / synthesis pipeline.   *)
(*                                                                         *)
(* Model of backend/src/routers/prep.py (create_prep, HEAD side of the     *)
(* file), services/cache_service.py, services/supabase_service.py,         *)
(* agents/research_orchestrator/agent.py, agents/sales_synthesizer/        *)
(* agent.py, utils/retry.py and schemas/prep_report.py.                    *)
(*                                                                         *)
(* Conventions                                                             *)
(*   - confidences are integers in tenths: 5 is 0.5, 17 is 1.7, -3 is -0.3 *)
(*   - time is counted in ticks, TicksPerDay ticks to a day                *)
(*   - a string that the code parses is a sequence of tokens               *)
(*   - an error message is the set of classification markers it contains  *)
(***************************************************************************)
EXTENDS Integers, Sequences, FiniteSets, TLC

VARIABLES
    req,            \* per request task: the locals of create_prep and its callees
    cache,          \* datastore table company_cache: a set of rows
    meeting_preps,  \* datastore table meeting_preps: a sequence of rows
    now             \* wall clock, in ticks

vars == <<req, cache, meeting_preps, now>>

---------------------------------------------------------------------------
(* Bounds of the model *)

NumRequests == 2        \* request slots (concurrent tasks)
MaxNameLen == 3         \* longest company name given to normalize_company_name
WideRetries == 6        \* the largest max_retries a retry runner is given
MaxLinks == 2           \* organic results a search answers
MaxTime == 2            \* ticks the clock advances in one behaviour
TicksPerDay == 2        \* clock resolution

(* Program constants *)

CACHE_TTL_DAYS == 7         \* CacheService.cache_ttl_days
MAX_RETRIES == 3            \* default max_retries of both retry runners
RATE_LIMIT_DELAY_CAP == 30  \* min(delay * 2, 30)
CONF_ONE == 10              \* 1.0 in tenths
DEFAULT_CONFIDENCE == 5     \* 0.5, the .get() default for a missing confidence
PLACEHOLDER_CONFIDENCE == 1 \* 0.1, the unparseable-research placeholder

Requests == 1..NumRequests

Min(a, b) == IF a < b THEN a ELSE b
Max(a, b) == IF a > b THEN a ELSE b

---------------------------------------------------------------------------
(* Company names and their normalisation.  A name is a sequence of          *)
(* characters; "E_ACUTE" is U+00E9, "KELVIN" the Kelvin sign U+212A (its    *)
(* lowercase is the ASCII k), "IDOT" the dotted capital I U+0130 (its       *)
(* lowercase is i followed by the combining dot U+0307, "DOT").             *)

\* str.lower() on one character whose lowercase is one character
Lower(c) ==
    CASE c = "A" -> "a" [] c = "B" -> "b" [] c = "C" -> "c" [] c = "KELVIN" -> "k"
      [] OTHER -> c

\* str.lower() on one character
LowerSeq(c) == IF c = "IDOT" THEN <<"i", "DOT">> ELSE <<Lower(c)>>

\* the character class [a-z0-9] of the regular expression
IsAlnum(c) == c \in {"a", "b", "c", "i", "k", "0", "1"}

\* str.lower()
RECURSIVE LowerStr(_)
LowerStr(s) == IF s = <<>> THEN <<>> ELSE LowerSeq(Head(s)) \o LowerStr(Tail(s))

\* re.sub(r"[^a-z0-9]+", "-", s): every maximal run of other characters
\* becomes one hyphen
RECURSIVE SubRuns(_)
SubRuns(s) ==
    IF s = <<>> THEN <<>>
    ELSE LET rest == SubRuns(Tail(s)) IN
         IF IsAlnum(Head(s)) THEN <<Head(s)>> \o rest
         ELSE IF Len(s) > 1 /\ ~IsAlnum(s[2]) THEN rest
         ELSE <<"-">> \o rest

\* str.strip("-")
RECURSIVE LStrip(_, _)
LStrip(s, ch) == IF s # <<>> /\ Head(s) = ch THEN LStrip(Tail(s), ch) ELSE s

RECURSIVE RStrip(_, _)
RStrip(s, ch) ==
    IF s # <<>> /\ s[Len(s)] = ch THEN RStrip(SubSeq(s, 1, Len(s) - 1), ch) ELSE s

\* str.strip("-") at the left end only
StripLeftOnly(s, ch) == LStrip(s, ch)

StripChar(s, ch) == RStrip(LStrip(s, ch), ch)

\* the strip applied before the substitution
normalize_strip_first(name) == SubRuns(StripChar(LowerStr(name), "-"))

normalize_company_name(name) == StripChar(SubRuns(LowerStr(name)), "-")

\* the company names requests carry
CompanyNames == { <<"A", "c">>, <<"a", "c", "!">>, <<"B", " ", "1">> }

---------------------------------------------------------------------------
(* Values an agent can return as research output (Python values).           *)

RKeys == {"company_intelligence", "overall_confidence", "sources_used"}

RDict(keys, id, conf, sources) ==
    [t |-> "dict", keys |-> keys, id |-> id, conf |-> conf, sources |-> sources, len |-> 0]

RNull == [t |-> "null", keys |-> {}, id |-> "", conf |-> 0, sources |-> <<>>, len |-> 0]

REmptyDict == RDict({}, "", 0, <<>>)

\* bool(v)
Truthy(v) ==
    CASE v.t = "dict" -> v.keys # {}
      [] v.t = "list" -> v.len > 0
      [] OTHER -> FALSE

\* v.get(key, default) for the two keys research_company reads
GetSources(v) == IF "sources_used" \in v.keys THEN v.sources ELSE <<>>
GetConfidence(v) == IF "overall_confidence" \in v.keys THEN v.conf ELSE DEFAULT_CONFIDENCE

---------------------------------------------------------------------------
(* Text.  A string the code parses is a sequence of tokens [k, v]:          *)
(*   "fence" the three backticks, "tag" the word json, "nl" a newline,      *)
(*   "sp" other white space, "junk" text that is not JSON,                  *)
(*   "doc" one complete JSON document whose parsed value is v, and          *)
(*   "dochead", "doctail" the two parts of a JSON document of value v that  *)
(*   holds a fence (inside a string) or white space between them.           *)

IsWs(tok) == tok.k \in {"nl", "sp"}

\* str.strip()
RECURSIVE LStripWs(_)
LStripWs(s) == IF s # <<>> /\ IsWs(Head(s)) THEN LStripWs(Tail(s)) ELSE s

RECURSIVE RStripWs(_)
RStripWs(s) ==
    IF s # <<>> /\ IsWs(s[Len(s)]) THEN RStripWs(SubSeq(s, 1, Len(s) - 1)) ELSE s

StripWs(s) == RStripWs(LStripWs(s))

\* positions of the tokens of kind k
Positions(s, k) == {i \in 1..Len(s) : s[i].k = k}

SetMin(S) == CHOOSE x \in S : \A y \in S : x <= y
SetMax(S) == CHOOSE x \in S : \A y \in S : x >= y

\* s.split("\n", 1): one part when s holds no newline, else the text before
\* the first newline and the text after it
SplitFirstNl(s) ==
    IF Positions(s, "nl") = {} THEN <<s>>
    ELSE LET i == SetMin(Positions(s, "nl")) IN
         <<SubSeq(s, 1, i - 1), SubSeq(s, i + 1, Len(s))>>

\* s.split("```", 1)[0]: the text before the first fence, or all of s
BeforeFirstFence(s) ==
    IF Positions(s, "fence") = {} THEN s
    ELSE SubSeq(s, 1, SetMin(Positions(s, "fence")) - 1)

\* s.rsplit("```", 1)[0]: the text before the last fence, or all of s
BeforeLastFence(s) ==
    IF Positions(s, "fence") = {} THEN s
    ELSE SubSeq(s, 1, SetMax(Positions(s, "fence")) - 1)

\* json.loads(s): white space around the one document is allowed; anything
\* else is a JSONDecodeError
JsonLoads(s) ==
    LET body == StripWs(s) IN
    IF Len(body) = 1 /\ body[1].k = "doc"
    THEN [ok |-> TRUE, v |-> body[1].v]
    ELSE IF /\ Len(body) = 3
            /\ body[1].k = "dochead"
            /\ body[2].k \in {"fence", "nl", "sp"}
            /\ body[3].k = "doctail"
            /\ body[1].v = body[3].v
    THEN [ok |-> TRUE, v |-> body[1].v]
    ELSE [ok |-> FALSE]

---------------------------------------------------------------------------
(* The result object of agent.run(): it may expose .data, .output, both or  *)
(* neither; a payload is a Python str (text) or another object (obj).       *)

StrPayload(text, filler) == [isstr |-> TRUE, text |-> text, obj |-> filler]
ObjPayload(v) == [isstr |-> FALSE, text |-> <<>>, obj |-> v]

RawResult(attrs, payload, repr) ==
    [attrs |-> attrs, data |-> payload, output |-> payload, repr |-> repr]

\* agent.py:174-181 of either agent: hasattr(result, 'data') first, then
\* 'output', else str(result)
ResultData(raw, filler) ==
    IF "data" \in raw.attrs THEN raw.data
    ELSE IF "output" \in raw.attrs THEN raw.output
    ELSE StrPayload(raw.repr, filler)

---------------------------------------------------------------------------
(* Retry runners.  An error is the set of markers its lowered message       *)
(* contains.                                                                *)

Markers == {"invalid", "argument", "quota", "billing", "429", "rate limit",
            "500", "502", "503", "504", "overloaded", "busy"}

is_rate_limit(e) == "429" \in e \/ "rate limit" \in e
is_quota_exceeded(e) == "quota" \in e \/ "billing" \in e
is_invalid(e) == "invalid" \in e /\ "argument" \in e

\* 2 * attempt in place of 2 ** attempt
TwiceAttempt(n) == 2 * n

RECURSIVE Pow2(_)
Pow2(n) == IF n = 0 THEN 1 ELSE 2 * Pow2(n - 1)

\* run_with_retry without the non-retryable test of agent.py:50-52
run_with_retry_step_no_invalid_test(attempt, e, max_retries) ==
    IF attempt < max_retries - 1
    THEN IF is_rate_limit(e)
         THEN [act |-> "sleep", delay |-> Min(Pow2(attempt) * 2, RATE_LIMIT_DELAY_CAP)]
         ELSE IF is_quota_exceeded(e)
         THEN [act |-> "raise", delay |-> 0]
         ELSE [act |-> "sleep", delay |-> Pow2(attempt)]
    ELSE [act |-> "exhausted", delay |-> 0]

\* One pass through the except-branch of run_with_retry (research
\* orchestrator) after attempt `attempt` (0-indexed) failed with error e:
\*   "raise"     re-raise e now
\*   "sleep"     time.sleep(delay), then the next attempt
\*   "exhausted" the loop ends and last_error is raised
run_with_retry_step(attempt, e, max_retries) ==
    IF is_invalid(e) THEN [act |-> "raise", delay |-> 0]
    ELSE IF attempt < max_retries - 1
    THEN IF is_rate_limit(e)
         THEN [act |-> "sleep", delay |-> Min(Pow2(attempt) * 2, RATE_LIMIT_DELAY_CAP)]
         ELSE IF is_quota_exceeded(e)
         THEN [act |-> "raise", delay |-> 0]
         ELSE [act |-> "sleep", delay |-> Pow2(attempt)]
    ELSE [act |-> "exhausted", delay |-> 0]

\* run_agent_with_retry sleeping after the final attempt as well
run_agent_with_retry_step_no_last_test(attempt, e, max_retries) ==
    IF is_invalid(e) THEN [act |-> "raise", delay |-> 0]
    ELSE IF attempt < max_retries
    THEN IF is_rate_limit(e)
         THEN [act |-> "sleep", delay |-> Min(Pow2(attempt) * 2, RATE_LIMIT_DELAY_CAP)]
         ELSE IF is_quota_exceeded(e)
         THEN [act |-> "raise", delay |-> 0]
         ELSE [act |-> "sleep", delay |-> Pow2(attempt)]
    ELSE [act |-> "exhausted", delay |-> 0]

\* run_agent_with_retry without the longer delay for rate limits
run_agent_with_retry_step_flat(attempt, e, max_retries) ==
    IF is_invalid(e) THEN [act |-> "raise", delay |-> 0]
    ELSE IF attempt < max_retries - 1
    THEN IF is_quota_exceeded(e) /\ ~is_rate_limit(e)
         THEN [act |-> "raise", delay |-> 0]
         ELSE [act |-> "sleep", delay |-> Pow2(attempt)]
    ELSE [act |-> "exhausted", delay |-> 0]

\* The same pass of run_agent_with_retry (utils/retry.py), whose sleep is
\* asyncio.sleep
run_agent_with_retry_step(attempt, e, max_retries) ==
    IF is_invalid(e) THEN [act |-> "raise", delay |-> 0]
    ELSE IF attempt < max_retries - 1
    THEN IF is_rate_limit(e)
         THEN [act |-> "sleep", delay |-> Min(Pow2(attempt) * 2, RATE_LIMIT_DELAY_CAP)]
         ELSE IF is_quota_exceeded(e)
         THEN [act |-> "raise", delay |-> 0]
         ELSE [act |-> "sleep", delay |-> Pow2(attempt)]
    ELSE [act |-> "exhausted", delay |-> 0]

\* the bookkeeping of one run of a retry runner: agent.run() calls made,
\* the delays slept, how it ended (no, returned, raised) and the error raised
NoRetry == [invocations |-> 0, delays |-> <<>>, ended |-> "no", raised |-> {}]

Invoked(retry) == [retry EXCEPT !.invocations = @ + 1]
RetryReturned(retry) == [Invoked(retry) EXCEPT !.ended = "returned"]
RetrySlept(retry, delay) == [Invoked(retry) EXCEPT !.delays = Append(@, delay)]
RetryRaised(retry, e) == [Invoked(retry) EXCEPT !.ended = "raised", !.raised = e]

---------------------------------------------------------------------------
(* ResearchOrchestrator.research_company, after the agent call.             *)

\* the record substituted for unparseable output (agent.py:189-198); its
\* company_intelligence carries the company name
ResearchPlaceholder ==
    RDict(RKeys, "unparsed", PLACEHOLDER_CONFIDENCE, <<>>)

\* agent.py:182-198: a str is parsed with json.loads, and what does not
\* parse is replaced by the placeholder
CoerceResearch(raw) ==
    LET rd == ResultData(raw, RNull) IN
    IF rd.isstr
    THEN LET parsed == JsonLoads(rd.text) IN
         IF parsed.ok THEN parsed.v ELSE ResearchPlaceholder
    ELSE rd.obj

NoError == {}

\* agent.py:200-214: the success record (raw keeps the agent's result it
\* was made from)
ResearchSuccess(raw) ==
    LET result_data == CoerceResearch(raw) IN
    [called |-> TRUE, success |-> TRUE,
     research_data |-> result_data,
     sources_used |-> IF result_data.t = "dict" THEN GetSources(result_data) ELSE <<>>,
     confidence_score |-> IF result_data.t = "dict" THEN GetConfidence(result_data)
                          ELSE DEFAULT_CONFIDENCE,
     error |-> NoError, failed |-> FALSE, raw |-> raw]

\* agent.py:216-224: the failure record (research_data None, no sources key)
ResearchFailure(e) ==
    [called |-> TRUE, success |-> FALSE,
     research_data |-> RNull, sources_used |-> <<>>,
     confidence_score |-> 0, error |-> e, failed |-> TRUE,
     raw |-> RawResult({}, ObjPayload(RNull), <<>>)]

NoResearch ==
    [called |-> FALSE, success |-> FALSE,
     research_data |-> RNull, sources_used |-> <<>>,
     confidence_score |-> 0, error |-> NoError, failed |-> FALSE,
     raw |-> RawResult({}, ObjPayload(RNull), <<>>)]

---------------------------------------------------------------------------
(* CacheService *)

\* timedelta.days of (current_time - last_updated): whole days, rounded down
AgeDays(last_updated, t) == (t - last_updated) \div TicksPerDay

\* the comparison written as age_days <= cache_ttl_days
IsFreshInclusive(last_updated, t) == AgeDays(last_updated, t) <= CACHE_TTL_DAYS

\* cache_service.py:44: fresh while age_days < cache_ttl_days
IsFresh(last_updated, t) == AgeDays(last_updated, t) < CACHE_TTL_DAYS

NoCached ==
    [found |-> FALSE, cache_status |-> "none", company_data |-> RNull,
     confidence_score |-> 0, source_urls |-> <<>>, last_updated |-> 0]

\* cache_service.py:39-61: what get_cached_company_data returns for a row
CachedEntry(row, t) ==
    [found |-> TRUE,
     cache_status |-> IF IsFresh(row.last_updated, t) THEN "fresh" ELSE "stale",
     company_data |-> row.company_data,
     confidence_score |-> row.confidence_score,
     source_urls |-> row.source_urls,
     last_updated |-> row.last_updated]

RowsOf(table, ident) == {row \in table : row.company_name_normalized = ident}

\* cache_service.py:27-33: the select ... limit(1) either throws or answers
\* with no row or one row of the identity
Reads(table, ident) ==
    {[threw |-> TRUE, rows |-> {}]}
    \cup (IF RowsOf(table, ident) = {} THEN {[threw |-> FALSE, rows |-> {}]}
          ELSE { [threw |-> FALSE, rows |-> {row}] : row \in RowsOf(table, ident) })

ReadKind(read) ==
    IF read.threw THEN "threw" ELSE IF read.rows = {} THEN "empty" ELSE "row"

\* get_cached_company_data with no handler around the read
get_cached_company_data_unguarded(read, t) ==
    IF read.threw THEN [raised |-> TRUE, value |-> NoCached]
    ELSE IF read.rows = {} THEN [raised |-> FALSE, value |-> NoCached]
    ELSE [raised |-> FALSE, value |-> CachedEntry(CHOOSE row \in read.rows : TRUE, t)]

\* cache_service.py:16-65: None when the read throws (63-65) or finds no
\* row (35-37), else the entry with its status
get_cached_company_data(read, t) ==
    IF read.threw THEN [raised |-> FALSE, value |-> NoCached]
    ELSE IF read.rows = {} THEN [raised |-> FALSE, value |-> NoCached]
    ELSE [raised |-> FALSE, value |-> CachedEntry(CHOOSE row \in read.rows : TRUE, t)]

\* the clamp without its lower bound
ClampUpperOnly(c) == Min(CONF_ONE, c)

\* cache_service.py:90: max(0.0, min(1.0, confidence_score))
ClampConfidence(c) == Max(0, Min(CONF_ONE, c))

\* cache_service.py:87-93: the row cache_company_data builds
CacheRow(ident, company_data, confidence_score, source_urls, t) ==
    [company_name_normalized |-> ident,
     company_data |-> company_data,
     confidence_score |-> ClampConfidence(confidence_score),
     last_updated |-> t,
     source_urls |-> source_urls]

\* insert() in place of upsert()
InsertRow(table, row) == table \cup {row}

\* an upsert that keeps the row already there (ignore_duplicates)
UpsertKeepingFirst(table, row) ==
    IF RowsOf(table, row.company_name_normalized) = {} THEN table \cup {row} ELSE table

\* cache_service.py:95-99: upsert(..., on_conflict="company_name_normalized")
\* replaces the row of the same identity, or inserts
Upsert(table, row) ==
    {x \in table : x.company_name_normalized # row.company_name_normalized} \cup {row}

---------------------------------------------------------------------------
(* PrepReport (schemas/prep_report.py) and the values the synthesis agent   *)
(* can return.                                                              *)

Sections == {"executive_summary", "strategic_narrative", "talking_points",
             "questions_to_ask", "decision_makers", "company_intelligence"}

\* A Python value of the synthesis path.  For a dict:
\*   wrap         number of {"prep_report": ...} layers around it
\*   present      the section keys it holds
\*   conf         the confidence of each section
\*   has_overall  whether overall_confidence is present; overall its value
\*   fields_ok    whether every other required field is present and in range
\*   items        number of list items over all its list fields
\*   limitations  research_limitations
SDict(wrap, present, conf, has_overall, overall, fields_ok, items, limitations) ==
    [t |-> "dict", wrap |-> wrap, present |-> present, conf |-> conf,
     has_overall |-> has_overall, overall |-> overall, fields_ok |-> fields_ok,
     items |-> items, limitations |-> limitations]

ZeroConf == [s \in Sections |-> 0]

SOther(t, wrap) ==
    [t |-> t, wrap |-> wrap, present |-> {}, conf |-> ZeroConf,
     has_overall |-> FALSE, overall |-> 0, fields_ok |-> FALSE,
     items |-> 0, limitations |-> <<>>]

SNull == SOther("null", 0)

\* isinstance(v, dict)
IsDict(v) == v.wrap > 0 \/ v.t = "dict"

\* "prep_report" in v
HasWrapperKey(v) == v.wrap > 0

\* v["prep_report"]
Unwrapped(v) == [v EXCEPT !.wrap = @ - 1]

\* Field(..., ge=0.0, le=1.0)
ConfidenceInRange(c) == 0 <= c /\ c <= CONF_ONE

\* a validation that checks the presence of the sections only
ValidatesSectionsOnly(v) ==
    /\ v.t = "dict"
    /\ v.wrap = 0
    /\ v.present = Sections

\* PrepReport.model_validate(v) succeeds: the six sections are required,
\* each confidence and overall_confidence are required with ge=0.0, le=1.0
ValidatesAsPrepReport(v) ==
    /\ v.t = "dict"
    /\ v.wrap = 0
    /\ v.present = Sections
    /\ \A s \in Sections : ConfidenceInRange(v.conf[s])
    /\ v.has_overall
    /\ ConfidenceInRange(v.overall)
    /\ v.fields_ok

NoReport ==
    [kind |-> "none", conf |-> ZeroConf, overall_confidence |-> 0, items |-> 0,
     research_limitations |-> <<>>, call_goal |-> ""]

\* the PrepReport object model_validate builds from a dict
ReportOf(v) ==
    [kind |-> "validated", conf |-> v.conf, overall_confidence |-> v.overall,
     items |-> v.items, research_limitations |-> v.limitations, call_goal |-> "agent"]

Limitation(prefix, exc, markers) == [prefix |-> prefix, exc |-> exc, markers |-> markers]

\* SalesBriefSynthesizer._create_error_report (agent.py:268-316)
create_error_report(meeting_objective, exc) ==
    [kind |-> "error", conf |-> ZeroConf, overall_confidence |-> 0, items |-> 0,
     research_limitations |-> << Limitation("Synthesis error", exc, {}) >>,
     call_goal |-> meeting_objective]

\* agent.py:190-195: strip, and when the text starts with a fence drop its
\* first line and what follows the last fence.  split("\n", 1)[1] raises
\* IndexError when there is no newline.
StripFence(text) ==
    LET cleaned == StripWs(text) IN
    IF cleaned # <<>> /\ cleaned[1].k = "fence"
    THEN LET parts == SplitFirstNl(cleaned) IN
         IF Len(parts) < 2 THEN [ok |-> FALSE, text |-> cleaned]
         ELSE [ok |-> TRUE, text |-> StripWs(BeforeLastFence(parts[2]))]
    ELSE [ok |-> TRUE, text |-> cleaned]

\* the result of the try body: a report, or the exception that leaves it
Returned(report) == [exc |-> "none", report |-> report]
Raised(exc) == [exc |-> exc, report |-> NoReport]

\* agent.py:208-223: a dict is validated (a ValidationError is caught at
\* 212-215), anything else raises TypeError
ValidateResult(meeting_objective, result_data) ==
    IF IsDict(result_data)
    THEN IF ValidatesAsPrepReport(result_data)
         THEN Returned(ReportOf(result_data))
         ELSE Returned(create_error_report(meeting_objective, "ValidationError"))
    ELSE Raised("TypeError")

\* agent.py:174-223: the try body from the agent's result on; json.loads
\* failing is caught at 203-206, the IndexError of the split is not
CoerceSynthesis(meeting_objective, raw) ==
    LET rd == ResultData(raw, SNull) IN
    IF rd.isstr
    THEN LET stripped == StripFence(rd.text) IN
         IF ~stripped.ok
         THEN Raised("IndexError")
         ELSE LET parsed == JsonLoads(stripped.text) IN
              IF ~parsed.ok
              THEN Returned(create_error_report(meeting_objective, "JSONDecodeError"))
              ELSE ValidateResult(meeting_objective,
                                  IF IsDict(parsed.v) /\ HasWrapperKey(parsed.v)
                                  THEN Unwrapped(parsed.v) ELSE parsed.v)
    ELSE ValidateResult(meeting_objective, rd.obj)

\* a handler that names the parsing errors only
CaughtOnlyNamedErrors(exc) == exc \in {"TypeError", "AgentError"}

\* agent.py:225: except Exception; the exceptions the try body can raise
\* all derive from Exception
CaughtByHandler(exc) == exc \in {"IndexError", "TypeError", "AgentError"}

\* agent.py:159-266: what synthesize_sales_brief does with the outcome of
\* its try body: return the report, return the handler's error report, or
\* let the exception out
SynthesisOutcome(meeting_objective, tried, markers) ==
    IF tried.exc = "none" THEN [raised |-> FALSE, report |-> tried.report]
    ELSE IF CaughtByHandler(tried.exc)
    THEN [raised |-> FALSE,
          report |-> [kind |-> "error", conf |-> ZeroConf, overall_confidence |-> 0,
                      items |-> 0,
                      research_limitations |->
                          << Limitation("Error generating report", tried.exc, markers) >>,
                      call_goal |-> meeting_objective]]
    ELSE [raised |-> TRUE, report |-> NoReport]

\* the parameters of synthesize_sales_brief (agent.py:130-136), none with a
\* default, and the keyword arguments create_prep passes (prep.py:185-189)
SynthesizeParameters == {"research_data", "user_profile", "user_id", "meeting_objective"}
CreatePrepKeywords == {"research_data", "user_profile", "meeting_objective"}

\* a Python call binds when every parameter without a default is given and
\* no unknown keyword is; otherwise it raises TypeError before the body runs
CallBinds(parameters, keywords) == parameters = keywords

---------------------------------------------------------------------------
(* What the collaborators can answer.                                       *)

RTok(k) == [k |-> k, v |-> RNull]
RDoc(v) == [k |-> "doc", v |-> v]

PkgFull == RDict(RKeys, "p1", 9, <<"u1">>)
PkgHigh == RDict(RKeys, "p2", 17, <<"u1", "u2">>)
PkgLow == RDict({"company_intelligence", "overall_confidence"}, "p1", -3, <<>>)

Fenced(doc, filler) ==
    << [k |-> "fence", v |-> filler], [k |-> "tag", v |-> filler], [k |-> "nl", v |-> filler],
       doc, [k |-> "nl", v |-> filler], [k |-> "fence", v |-> filler] >>

\* results of the research agent's run()
ResearchRaws ==
    { RawResult({"output"}, ObjPayload(PkgFull), <<RTok("junk")>>),
      RawResult({"data", "output"}, ObjPayload(PkgHigh), <<RTok("junk")>>),
      RawResult({"output"}, StrPayload(<<RDoc(PkgLow)>>, RNull), <<RTok("junk")>>),
      RawResult({"data"}, StrPayload(<<RDoc(RDict({"company_intelligence"}, "p2", 0, <<>>)), RTok("nl")>>, RNull), <<RTok("junk")>>),
      RawResult({"output"}, StrPayload(Fenced(RDoc(PkgFull), RNull), RNull), <<RTok("junk")>>),
      RawResult({"output"}, StrPayload(<<RTok("junk")>>, RNull), <<RTok("junk")>>),
      RawResult({"output"}, ObjPayload(REmptyDict), <<RTok("junk")>>),
      RawResult({"output"}, StrPayload(<<RDoc(RNull)>>, RNull), <<RTok("junk")>>),
      RawResult({"output"}, ObjPayload([RNull EXCEPT !.t = "list", !.len = 1]), <<RTok("junk")>>),
      RawResult({}, ObjPayload(PkgFull), <<RTok("junk")>>) }

\* error messages an agent run can raise
AgentErrors ==
    { {}, {"invalid", "argument"}, {"quota"}, {"429"}, {"429", "quota"}, {"503"},
      {"invalid"}, {"billing"}, {"rate limit"} }

NoRaw(filler) == RawResult({}, ObjPayload(filler), <<>>)

Outcome(ok, err, raw) == [ok |-> ok, err |-> err, raw |-> raw]

ResearchOutcomes ==
    { Outcome(TRUE, NoError, raw) : raw \in ResearchRaws }
    \cup { Outcome(FALSE, e, NoRaw(RNull)) : e \in AgentErrors }

Identities == { normalize_company_name(c) : c \in CompanyNames }

---------------------------------------------------------------------------
(* The five research tools (agents/research_orchestrator/tools) and the     *)
(* services behind them.  A link is a sequence of pieces of its text; an    *)
(* exception is the set of markers its lowered message contains.            *)

ProfileMark == "linkedin.com/in/"

Links == { <<"https://www.", ProfileMark, "ann">>,
           <<"https://x.com/?u=", ProfileMark, "bob">>,
           <<"https://www.", "linkedin.com/company/", "acme">>,
           <<>> }

\* "linkedin.com/in/" in link
ContainsProfileMark(link) == \E i \in 1..Len(link) : link[i] = ProfileMark

ProviderErrors == { {"trial", "expired"}, {"quota"}, {"billing"}, {"429"}, {"rate limit"},
                    {"invalid", "argument"}, {"503"}, {"timeout"} }

\* what serpapi's search(params) does: it throws, or answers up to
\* MaxLinks organic results and maybe a news result
SearchResponses ==
    { [threw |-> TRUE, err |-> e, organic |-> <<>>, news |-> 0] : e \in ProviderErrors } \cup
    { [threw |-> FALSE, err |-> {}, organic |-> o, news |-> n] :
          o \in UNION { [1..k -> Links] : k \in 0..MaxLinks }, n \in 0..1 }

\* what an Apify actor run does: call() throws, call() answers None, the
\* dataset is empty, the dataset has items
ActorOutcomes ==
    { [k |-> "threw", err |-> e] : e \in ProviderErrors } \cup
    { [k |-> k, err |-> {}] : k \in {"no_run", "empty", "items"} }

\* what Firecrawl's scrape() does: it throws, or answers an object with a
\* success attribute (with or without an error), an object with data or
\* content only, a dict with a data, content or error key or none of them,
\* or something else
PageResponses ==
    { [k |-> "threw", err |-> e] : e \in ProviderErrors } \cup
    { [k |-> k, err |-> {}] : k \in {"obj_success", "obj_failure_error", "obj_failure",
                                   "obj_data", "obj_content", "dict_data", "dict_content",
                                   "dict_error", "dict_other", "other"} }

\* the record a service or a tool returns: error "none" is None or an
\* absent key; scraper_called and scraped tell whether and on which link
\* the profile scraper was run
ToolRecord(success, error, organic_results, news_results, data) ==
    [raised |-> FALSE, success |-> success, error |-> error,
     organic_results |-> organic_results, news_results |-> news_results,
     data |-> data, scraper_called |-> FALSE, scraped |-> <<>>]

ToolFailure(error) == ToolRecord(FALSE, error, <<>>, 0, FALSE)

\* search_service.py:86-122: the except branch of search
SearchErrorRecord(e) ==
    IF "quota" \in e \/ "billing" \in e THEN ToolFailure("API quota exceeded")
    ELSE IF "429" \in e \/ "rate limit" \in e THEN ToolFailure("API rate limit exceeded")
    ELSE IF {"500", "502", "503", "504"} \cap e # {} THEN ToolFailure("SerpAPI server error")
    ELSE ToolFailure("Search failed")

\* search_service.py:18-122: SearchService.search
search(response, num_results) ==
    IF response.threw THEN SearchErrorRecord(response.err)
    ELSE ToolRecord(TRUE, "none",
                    SubSeq(response.organic, 1, Min(Len(response.organic), num_results)),
                    response.news, response.organic # <<>> \/ response.news > 0)

\* tools/web_search.py:8-30
web_search(response, num_results) ==
    LET result == search(response, num_results) IN
    ToolRecord(result.success, result.error, result.organic_results,
               result.news_results, result.data)

\* firecrawl_service.py:103-135: the except branch of scrape_website
FirecrawlErrorRecord(e) ==
    IF "quota" \in e \/ "billing" \in e THEN ToolFailure("API quota exceeded")
    ELSE IF "429" \in e \/ "rate limit" \in e THEN ToolFailure("API rate limit exceeded")
    ELSE IF {"500", "502", "503", "504"} \cap e # {} THEN ToolFailure("Firecrawl server error")
    ELSE ToolFailure("Scraping failed")

\* firecrawl_service.py:16-135: FirecrawlService.scrape_website
firecrawl_scrape_website(response) ==
    IF response.k = "threw" THEN FirecrawlErrorRecord(response.err)
    ELSE IF response.k \in {"obj_success", "obj_data", "obj_content", "dict_data", "dict_content"}
    THEN ToolRecord(TRUE, "none", <<>>, 0, TRUE)
    ELSE IF response.k = "obj_failure_error" THEN ToolFailure("provider error")
    ELSE IF response.k = "obj_failure" THEN ToolFailure("none")
    ELSE IF response.k = "dict_error" THEN ToolFailure("provider error")
    ELSE IF response.k = "dict_other" THEN ToolFailure("Unexpected response format")
    ELSE ToolFailure("Unexpected response type")

\* tools/scrape_website.py:8-37 (result.get("error", "Unknown error") is
\* the error of the record, whose key is always there)
scrape_website(response) ==
    LET result == firecrawl_scrape_website(response) IN
    IF result.success THEN ToolRecord(TRUE, "none", <<>>, 0, TRUE)
    ELSE ToolFailure(result.error)

\* apify_service.py:38-59, 154-175, 236-257: the actor is run and its
\* dataset read; the outcome is a record or the exception that leaves the
\* try body (run["defaultDatasetId"] raises TypeError when call() answered
\* None)
ActorRun(actor, no_data_error) ==
    IF actor.k = "threw" THEN [exc |-> TRUE, err |-> actor.err, rec |-> ToolFailure("none")]
    ELSE IF actor.k = "no_run" THEN [exc |-> TRUE, err |-> {"nonetype", "subscriptable"}, rec |-> ToolFailure("none")]
    ELSE IF actor.k = "empty" THEN [exc |-> FALSE, err |-> {}, rec |-> ToolFailure(no_data_error)]
    ELSE [exc |-> FALSE, err |-> {}, rec |-> ToolRecord(TRUE, "none", <<>>, 0, TRUE)]

\* apify_service.py:61-89 and 259-287: the except branch of the two company
\* scrapers
ApifyErrorRecord(e, what) ==
    IF "trial" \in e /\ "expired" \in e THEN ToolFailure("Apify trial expired")
    ELSE IF "quota" \in e \/ "billing" \in e THEN ToolFailure("Apify quota exceeded")
    ELSE IF "rate limit" \in e \/ "429" \in e THEN ToolFailure("Apify rate limit exceeded")
    ELSE ToolFailure(what)

\* apify_service.py:15-89: ApifyService.scrape_company_linkedin
apify_scrape_company_linkedin(actor) ==
    LET run == ActorRun(actor, "No data found") IN
    IF run.exc THEN ApifyErrorRecord(run.err, "LinkedIn company scraping failed")
    ELSE run.rec

\* apify_service.py:213-287: ApifyService.scrape_linkedin_posts
apify_scrape_linkedin_posts(actor) ==
    LET run == ActorRun(actor, "No posts found") IN
    IF run.exc THEN ApifyErrorRecord(run.err, "LinkedIn posts scraping failed")
    ELSE run.rec

\* a handler for the profile search that lets an invalid-argument error go
ProfileErrorRecordReraising(e) ==
    IF "trial" \in e /\ "expired" \in e THEN ToolFailure("Apify trial expired")
    ELSE IF "quota" \in e \/ "billing" \in e THEN ToolFailure("Apify quota exceeded")
    ELSE IF "rate limit" \in e \/ "429" \in e THEN ToolFailure("Apify rate limit exceeded")
    ELSE IF "invalid" \in e /\ "argument" \in e THEN [ToolFailure("none") EXCEPT !.raised = TRUE]
    ELSE ToolFailure("LinkedIn profile search failed")

\* apify_service.py:177-211: the except branch of search_linkedin_profile
ProfileErrorRecord(e) ==
    IF "trial" \in e /\ "expired" \in e THEN ToolFailure("Apify trial expired")
    ELSE IF "quota" \in e \/ "billing" \in e THEN ToolFailure("Apify quota exceeded")
    ELSE IF "rate limit" \in e \/ "429" \in e THEN ToolFailure("Apify rate limit exceeded")
    ELSE IF "invalid" \in e /\ "argument" \in e THEN ToolFailure("Invalid input for profile search")
    ELSE ToolFailure("LinkedIn profile search failed")

\* apify_service.py:133-137: the link of the first result that holds
\* "linkedin.com/in/", None (here the empty link) when there is none
FirstProfileLink(organic_results) ==
    LET hits == {i \in 1..Len(organic_results) : ContainsProfileMark(organic_results[i])} IN
    IF hits = {} THEN <<>> ELSE organic_results[SetMin(hits)]

\* apify_service.py:91-211: ApifyService.search_linkedin_profile
apify_search_linkedin_profile(response, actor) ==
    LET search_results == search(response, 5) IN
    IF ~search_results.success \/ search_results.organic_results = <<>>
    THEN ToolFailure("Profile not found - no search results")
    ELSE LET linkedin_url == FirstProfileLink(search_results.organic_results) IN
         IF linkedin_url = <<>>
         THEN ToolFailure("No LinkedIn profile URL found")
         ELSE LET run == ActorRun(actor, "Profile scraping returned no data")
                  rec == IF run.exc THEN ProfileErrorRecord(run.err) ELSE run.rec
              IN  [rec EXCEPT !.scraper_called = TRUE, !.scraped = linkedin_url]

\* tools/get_company_linkedin.py:8-35, tools/scrape_linkedin_posts.py:11-39,
\* tools/search_linkedin_profile.py:8-38: the service's record with its
\* success and error (an exception of the service passes through)
ToolOf(result) ==
    IF result.raised THEN result
    ELSE IF result.success THEN [result EXCEPT !.error = "none"]
    ELSE result

get_company_linkedin(actor) == ToolOf(apify_scrape_company_linkedin(actor))

scrape_linkedin_posts(actor) == ToolOf(apify_scrape_linkedin_posts(actor))

search_linkedin_profile(response, actor) ==
    ToolOf(apify_search_linkedin_profile(response, actor))

\* one tool call of the agent loop: the tool, what its providers did and
\* the record the tool gave back
NoToolCall ==
    [tool |-> "none",
     response |-> [threw |-> FALSE, err |-> {}, organic |-> <<>>, news |-> 0],
     actor |-> [k |-> "none", err |-> {}],
     page |-> [k |-> "none", err |-> {}],
     result |-> ToolFailure("none")]

---------------------------------------------------------------------------
(* The request task: the locals of create_prep (prep.py:67-232) and of the  *)
(* calls it is suspended in.                                                *)

NoResponse == [kind |-> "none", status |-> 0, detail |-> "", prep_id |-> 0, cache_hit |-> FALSE]

ErrorResponse(status, detail) ==
    [kind |-> "error", status |-> status, detail |-> detail, prep_id |-> 0, cache_hit |-> FALSE]

OkResponse(prep_id, cache_hit) ==
    [kind |-> "ok", status |-> 200,
     detail |-> "Prep report generated and saved successfully",
     prep_id |-> prep_id, cache_hit |-> cache_hit]

IdleRequest ==
    [pc |-> "idle",
     company_name |-> <<>>, meeting_objective |-> "",
     normalized_company_name |-> <<>>,
     cached_data |-> NoCached,
     lookup_time |-> 0,              \* clock reading of the cache lookup
     lookup_read |-> "none",         \* the datastore read of the lookup: threw, empty, row
     research_result |-> NoResearch,
     research_data |-> REmptyDict,
     cache_hit |-> FALSE,
     attempt |-> 0, last_error |-> NoError,
     max_retries |-> MAX_RETRIES,    \* max_retries of the retry runners
     retry |-> NoRetry,
     cache_write |-> "none",         \* outcome of cache_company_data: none, ok, failed
     user_profile |-> "unset",
     synth_called |-> FALSE,         \* synthesize_sales_brief was called
     synth_research_data |-> RNull,  \* the research_data argument of that call
     result |-> NoRaw(SNull),        \* the synthesis agent's result
     prep_report |-> NoReport,
     save |-> "none",                \* what the insert of save_meeting_prep did
     tool_call |-> NoToolCall,       \* the last tool call of the research agent
     response |-> NoResponse]

OffRequest == [IdleRequest EXCEPT !.pc = "off"]

\* company_cache as earlier requests left it: empty, or one row written
\* just now or between TTL - MaxTime and TTL ago
SeedCaches ==
    { {} } \cup
    { { CacheRow(id, RDict(RKeys, "old", 9, <<"u0">>), 9, <<"u0">>, 0 - age) } :
          id \in Identities,
          age \in {0} \cup ((CACHE_TTL_DAYS * TicksPerDay - MaxTime)..(CACHE_TTL_DAYS * TicksPerDay)) }

\* One request slot is open; the rows of company_cache were written by
\* earlier requests.
Init ==
    /\ req = [r \in Requests |-> IF r = 1 THEN IdleRequest ELSE OffRequest]
    /\ cache \in SeedCaches
    /\ meeting_preps = <<>>
    /\ now = 0

\* research_orchestrator/agent.py:66: time.sleep(delay) does not yield to
\* the event loop, so while a request is inside it no task of the process
\* runs
LoopBlocked == \E r \in Requests : req[r].pc = "research_sleep"

\* the clock advances
Tick ==
    /\ now < MaxTime
    /\ now' = now + 1
    /\ UNCHANGED <<req, cache, meeting_preps>>

\* prep.py:67-101: a request arrives
Receive(r) ==
    /\ req[r].pc = "idle"
    /\ ~LoopBlocked
    /\ \E c \in CompanyNames, o \in {"demo"} :
          req' = [req EXCEPT ![r] =
                    [IdleRequest EXCEPT !.pc = "lookup",
                                        !.company_name = c,
                                        !.meeting_objective = o,
                                        !.normalized_company_name = normalize_company_name(c)]]
    /\ UNCHANGED <<cache, meeting_preps, now>>

\* create_prep using any cached entry, whatever its status
AfterLookupUsingStale(r, cached_data, read_kind) ==
    IF cached_data.found
    THEN req' = [req EXCEPT ![r].cached_data = cached_data,
                            ![r].lookup_time = now,
                            ![r].lookup_read = read_kind,
                            ![r].research_data = cached_data.company_data,
                            ![r].cache_hit = TRUE,
                            ![r].pc = "profile"]
    ELSE req' = [req EXCEPT ![r].cached_data = cached_data,
                            ![r].lookup_time = now,
                            ![r].lookup_read = read_kind,
                            ![r].pc = "research"]

\* create_prep writing a fresh hit back to the cache (a sliding TTL)
AfterLookupRefreshing(r, cached_data, read_kind) ==
    IF cached_data.found /\ cached_data.cache_status = "fresh"
    THEN req' = [req EXCEPT ![r].cached_data = cached_data,
                            ![r].lookup_time = now,
                            ![r].lookup_read = read_kind,
                            ![r].research_data = cached_data.company_data,
                            ![r].cache_hit = TRUE,
                            ![r].pc = "cache_write"]
    ELSE req' = [req EXCEPT ![r].cached_data = cached_data,
                            ![r].lookup_time = now,
                            ![r].lookup_read = read_kind,
                            ![r].pc = "research"]

\* prep.py:121-133 after get_cached_company_data returned cached_data
AfterLookup(r, cached_data, read_kind) ==
    IF cached_data.found /\ cached_data.cache_status = "fresh"
    THEN req' = [req EXCEPT ![r].cached_data = cached_data,
                            ![r].lookup_time = now,
                            ![r].lookup_read = read_kind,
                            ![r].research_data = cached_data.company_data,
                            ![r].cache_hit = TRUE,
                            ![r].pc = "profile"]
    ELSE req' = [req EXCEPT ![r].cached_data = cached_data,
                            ![r].lookup_time = now,
                            ![r].lookup_read = read_kind,
                            ![r].pc = "research"]

\* prep.py:103-133 with cache_service.py:16-65
Lookup(r) ==
    /\ req[r].pc = "lookup"
    /\ ~LoopBlocked
    /\ \E read \in Reads(cache, req[r].normalized_company_name) :
          LET got == get_cached_company_data(read, now) IN
          IF got.raised
          THEN req' = [req EXCEPT ![r].lookup_time = now,
                                  ![r].lookup_read = ReadKind(read),
                                  ![r].pc = "failed",
                                  ![r].response = ErrorResponse(500, "Internal Server Error")]
          ELSE AfterLookup(r, got.value, ReadKind(read))
    /\ UNCHANGED <<cache, meeting_preps, now>>

\* create_prep without the success check of prep.py:143-148
AfterResearchIgnoringFailure(r, research_result, last_error, retry) ==
    req' = [req EXCEPT ![r].last_error = last_error,
                       ![r].retry = retry,
                       ![r].research_result = research_result,
                       ![r].research_data = research_result.research_data,
                       ![r].pc = IF Truthy(research_result.research_data)
                                 THEN "cache_write" ELSE "profile"]

\* create_prep starting the request over when research failed
AfterResearchRestarting(r, research_result, last_error, retry) ==
    IF ~research_result.success
    THEN req' = [req EXCEPT ![r].last_error = last_error,
                            ![r].retry = retry,
                            ![r].research_result = research_result,
                            ![r].pc = "lookup"]
    ELSE req' = [req EXCEPT ![r].last_error = last_error,
                            ![r].retry = retry,
                            ![r].research_result = research_result,
                            ![r].research_data = research_result.research_data,
                            ![r].pc = IF Truthy(research_result.research_data)
                                      THEN "cache_write" ELSE "profile"]

\* prep.py:143-169 after research_company returned research_result: a
\* failure raises the request-level error, a success is cached when the
\* research data is truthy
AfterResearch(r, research_result, last_error, retry) ==
    IF ~research_result.success
    THEN req' = [req EXCEPT ![r].last_error = last_error,
                            ![r].retry = retry,
                            ![r].research_result = research_result,
                            ![r].pc = "failed",
                            ![r].response = ErrorResponse(500, "Research error")]
    ELSE req' = [req EXCEPT ![r].last_error = last_error,
                            ![r].retry = retry,
                            ![r].research_result = research_result,
                            ![r].research_data = research_result.research_data,
                            ![r].pc = IF Truthy(research_result.research_data)
                                      THEN "cache_write" ELSE "profile"]

\* prep.py:134-141 with research_orchestrator/agent.py:18-71 and 129-224:
\* one agent.run() of run_with_retry and everything up to the next await
\* or up to the time.sleep of the runner
Research(r) ==
    /\ req[r].pc = "research"
    /\ ~LoopBlocked
    /\ \E o \in ResearchOutcomes :
          IF o.ok
          THEN AfterResearch(r, ResearchSuccess(o.raw), req[r].last_error,
                             RetryReturned(req[r].retry))
          ELSE LET step == run_with_retry_step(req[r].attempt, o.err, req[r].max_retries) IN
               IF step.act = "sleep"
               THEN req' = [req EXCEPT ![r].last_error = o.err,
                                       ![r].retry = RetrySlept(@, step.delay),
                                       ![r].pc = "research_sleep"]
               ELSE AfterResearch(r, ResearchFailure(o.err), o.err,
                                  RetryRaised(req[r].retry, o.err))
    /\ UNCHANGED <<cache, meeting_preps, now>>

\* research_orchestrator/agent.py:66: time.sleep(delay) is over
ResearchWake(r) ==
    /\ req[r].pc = "research_sleep"
    /\ req' = [req EXCEPT ![r].attempt = @ + 1, ![r].pc = "research"]
    /\ UNCHANGED <<cache, meeting_preps, now>>

\* prep.py:152-162 with cache_service.py:67-106
CacheWrite(r) ==
    /\ req[r].pc = "cache_write"
    /\ ~LoopBlocked
    /\ \/ /\ cache' = Upsert(cache, CacheRow(req[r].normalized_company_name,
                                             req[r].research_data,
                                             req[r].research_result.confidence_score,
                                             req[r].research_result.sources_used,
                                             now))
          /\ req' = [req EXCEPT ![r].cache_write = "ok", ![r].pc = "profile"]
       \/ /\ cache' = cache          \* the upsert throws: logged, False
          /\ req' = [req EXCEPT ![r].cache_write = "failed", ![r].pc = "profile"]
    /\ UNCHANGED <<meeting_preps, now>>

\* prep.py:171-180 with supabase_service.py:31-63
Profile(r) ==
    /\ req[r].pc = "profile"
    /\ ~LoopBlocked
    /\ \/ req' = [req EXCEPT ![r].user_profile = "found", ![r].pc = "synth_call"]
       \/ req' = [req EXCEPT ![r].user_profile = "none",
                             ![r].pc = "failed",
                             ![r].response = ErrorResponse(404, "User profile not found")]
    /\ UNCHANGED <<cache, meeting_preps, now>>

\* prep.py:182-198: the call of synthesize_sales_brief
SynthCall(r) ==
    /\ req[r].pc = "synth_call"
    /\ ~LoopBlocked
    /\ IF CallBinds(SynthesizeParameters, CreatePrepKeywords)
       THEN req' = [req EXCEPT ![r].synth_called = TRUE,
                               ![r].synth_research_data = req[r].research_data,
                               ![r].attempt = 0,
                               ![r].retry = NoRetry,
                               ![r].pc = "synth_run"]
       ELSE req' = [req EXCEPT ![r].synth_called = TRUE,
                               ![r].synth_research_data = req[r].research_data,
                               ![r].pc = "failed",
                               ![r].response = ErrorResponse(500, "Synthesis error")]
    /\ UNCHANGED <<cache, meeting_preps, now>>

Next ==
    \/ Tick
    \/ \E r \in Requests : Receive(r)
    \/ \E r \in Requests : Lookup(r)
    \/ \E r \in Requests : Research(r)
    \/ \E r \in Requests : ResearchWake(r)
    \/ \E r \in Requests : CacheWrite(r)
    \/ \E r \in Requests : Profile(r)
    \/ \E r \in Requests : SynthCall(r)

Spec == Init /\ [][Next]_vars

---------------------------------------------------------------------------
(* The synthesis agent and what follows a call of synthesize_sales_brief    *)
(* that binds.                                                              *)

STok(k) == [k |-> k, v |-> SNull]
SDoc(v) == [k |-> "doc", v |-> v]

ConfValues == {-3, 0, 10, 17}

BaseDict ==
    SDict(0, Sections, [s \in Sections |-> 8], TRUE, 8, TRUE, 3, << Limitation("agent", "", {}) >>)

\* dicts the agent can answer: the base report and its one-step deviations
SynthDicts ==
    {BaseDict}
    \cup { [BaseDict EXCEPT !.conf[s] = c] : s \in Sections, c \in ConfValues }
    \cup { [BaseDict EXCEPT !.overall = c] : c \in ConfValues }
    \cup { [BaseDict EXCEPT !.has_overall = FALSE] }
    \cup { [BaseDict EXCEPT !.present = Sections \ {s}] : s \in Sections }
    \cup { [BaseDict EXCEPT !.fields_ok = FALSE] }
    \cup { [BaseDict EXCEPT !.items = 0, !.limitations = <<>>] }

SynthValues ==
    SynthDicts
    \cup { [d EXCEPT !.wrap = 1] : d \in SynthDicts }
    \cup { [BaseDict EXCEPT !.wrap = 2] }
    \cup { SNull, SOther("list", 0), SOther("list", 1) }

\* the documents used inside text
SynthTextValues ==
    { BaseDict, [BaseDict EXCEPT !.overall = 17],
      [BaseDict EXCEPT !.conf["talking_points"] = -3],
      [BaseDict EXCEPT !.present = Sections \ {"decision_makers"}],
      [BaseDict EXCEPT !.wrap = 1], [BaseDict EXCEPT !.wrap = 1, !.overall = 17],
      [BaseDict EXCEPT !.wrap = 2],
      SNull, SOther("list", 0), SOther("list", 1) }

\* a JSON document with a fence inside a string, or with a line break
SplitDoc(v, k) == << [k |-> "dochead", v |-> v], STok(k), [k |-> "doctail", v |-> v] >>

\* the JSON documents the agent writes
JsonDocuments ==
    { <<SDoc(v)>> : v \in SynthTextValues }
    \cup { SplitDoc(v, k) : v \in {BaseDict, [BaseDict EXCEPT !.wrap = 1]}, k \in {"fence", "nl"} }

\* a document between a leading fence line, tagged json or not, and a
\* trailing fence
FenceWrap(body, tagged) ==
    <<STok("fence")>> \o (IF tagged THEN <<STok("tag")>> ELSE <<>>) \o <<STok("nl")>>
        \o body \o <<STok("nl"), STok("fence")>>

\* the texts the agent can answer: each value in the ways a document comes
\* as text, and the documents that hold a fence or a newline
SynthTexts ==
    UNION { { <<SDoc(v)>>,
              <<STok("sp"), SDoc(v), STok("nl")>>,
              Fenced(SDoc(v), SNull),
              <<STok("fence"), STok("nl"), SDoc(v), STok("nl"), STok("fence")>>,
              <<STok("fence"), STok("tag"), STok("nl"), SDoc(v)>>,
              <<STok("fence"), STok("tag"), STok("sp"), SDoc(v), STok("fence")>>,
              <<STok("junk"), SDoc(v)>> } : v \in SynthTextValues }
    \cup { SplitDoc(v, k) : v \in {BaseDict, [BaseDict EXCEPT !.wrap = 1]}, k \in {"fence", "nl"} }
    \cup { FenceWrap(SplitDoc(v, k), tagged) :
             v \in {BaseDict, [BaseDict EXCEPT !.wrap = 1]}, k \in {"fence", "nl"},
             tagged \in BOOLEAN }
    \cup { <<STok("fence"), STok("tag"), STok("nl")>> \o SplitDoc(BaseDict, "fence"),
           <<STok("fence"), STok("tag")>> \o SplitDoc(BaseDict, "nl") \o <<STok("fence")>> }
    \cup { <<>>, <<STok("junk")>>, <<STok("fence")>>, <<STok("fence"), STok("tag")>>,
           <<STok("fence"), STok("nl"), STok("fence")>> }

SynthPayloads ==
    { ObjPayload(v) : v \in SynthValues } \cup { StrPayload(t, SNull) : t \in SynthTexts }

\* results of the synthesis agent's run()
SynthRaws ==
    { RawResult({"output"}, p, <<STok("junk")>>) : p \in SynthPayloads }
    \cup { RawResult(a, p, <<STok("junk")>>) :
             a \in { {"data"}, {"data", "output"} },
             p \in { ObjPayload(BaseDict), StrPayload(Fenced(SDoc(BaseDict), SNull), SNull) } }
    \cup { RawResult({}, ObjPayload(BaseDict), t) :
             t \in { <<STok("junk")>>, <<SDoc(BaseDict)>>, <<STok("fence"), STok("junk")>> } }

SynthOutcomes ==
    { Outcome(TRUE, NoError, raw) : raw \in SynthRaws }
    \cup { Outcome(FALSE, e, NoRaw(SNull)) : e \in AgentErrors }

\* prep.py:191-198 after synthesize_sales_brief ended
AfterSynthesis(r, raw, last_error, out, retry) ==
    IF out.raised
    THEN req' = [req EXCEPT ![r].result = raw,
                            ![r].last_error = last_error,
                            ![r].retry = retry,
                            ![r].pc = "failed",
                            ![r].response = ErrorResponse(500, "Synthesis error")]
    ELSE req' = [req EXCEPT ![r].result = raw,
                            ![r].last_error = last_error,
                            ![r].retry = retry,
                            ![r].prep_report = out.report,
                            ![r].pc = "persist"]

\* sales_synthesizer/agent.py:159-266 with utils/retry.py:28-65: one
\* agent.run() of run_agent_with_retry and everything up to the next await
SynthRun(r) ==
    /\ req[r].pc = "synth_run"
    /\ ~LoopBlocked
    /\ \E o \in SynthOutcomes :
          IF o.ok
          THEN AfterSynthesis(r, o.raw, req[r].last_error,
                   SynthesisOutcome(req[r].meeting_objective,
                                    CoerceSynthesis(req[r].meeting_objective, o.raw),
                                    NoError),
                   RetryReturned(req[r].retry))
          ELSE LET step == run_agent_with_retry_step(req[r].attempt, o.err, req[r].max_retries) IN
               IF step.act = "sleep"
               THEN req' = [req EXCEPT ![r].last_error = o.err,
                                       ![r].retry = RetrySlept(@, step.delay),
                                       ![r].pc = "synth_sleep"]
               ELSE AfterSynthesis(r, req[r].result, o.err,
                        SynthesisOutcome(req[r].meeting_objective,
                                         Raised("AgentError"), o.err),
                        RetryRaised(req[r].retry, o.err))
    /\ UNCHANGED <<cache, meeting_preps, now>>

\* utils/retry.py:60: asyncio.sleep(delay) is over
SynthWake(r) ==
    /\ req[r].pc = "synth_sleep"
    /\ ~LoopBlocked
    /\ req' = [req EXCEPT ![r].attempt = @ + 1, ![r].pc = "synth_run"]
    /\ UNCHANGED <<cache, meeting_preps, now>>

\* supabase_service.py:97-108: the row save_meeting_prep inserts
PrepRecord(id, q) ==
    [id |-> id,
     company_name |-> q.company_name,
     company_name_normalized |-> q.normalized_company_name,
     meeting_objective |-> q.meeting_objective,
     prep_data |-> q.prep_report,
     overall_confidence |-> ClampConfidence(q.prep_report.overall_confidence),
     cache_hit |-> q.cache_hit]

\* supabase_service.py:96-129: the id of the inserted row, or None (0) when
\* the insert throws or response.data is empty
save_meeting_prep(table, q, outcome) ==
    LET id == Len(table) + 1 IN
    CASE outcome = "inserted" ->
             [prep_id |-> id, table |-> Append(table, PrepRecord(id, q))]
      [] outcome = "inserted_no_data" ->
             [prep_id |-> 0, table |-> Append(table, PrepRecord(id, q))]
      [] OTHER -> [prep_id |-> 0, table |-> table]

\* create_prep without the test of prep.py:215-216
AfterSaveTrustingId(r, prep_id, outcome) ==
    req' = [req EXCEPT ![r].save = outcome,
                       ![r].pc = "done",
                       ![r].response = OkResponse(prep_id, req[r].cache_hit)]

\* prep.py:215-232 after save_meeting_prep returned prep_id
AfterSave(r, prep_id, outcome) ==
    IF prep_id = 0
    THEN req' = [req EXCEPT ![r].save = outcome,
                            ![r].pc = "failed",
                            ![r].response = ErrorResponse(500, "Database error")]
    ELSE req' = [req EXCEPT ![r].save = outcome,
                            ![r].pc = "done",
                            ![r].response = OkResponse(prep_id, req[r].cache_hit)]

\* prep.py:200-232 with supabase_service.py:65-129
Persist(r) ==
    /\ req[r].pc = "persist"
    /\ ~LoopBlocked
    \* the insert into meeting_preps inserts the row and answers with it,
    \* throws, answers with no row, or inserts the row and answers with none
    /\ \E outcome \in {"inserted", "threw", "no_data", "inserted_no_data"} :
          LET saved == save_meeting_prep(meeting_preps, req[r], outcome) IN
          /\ meeting_preps' = saved.table
          /\ AfterSave(r, saved.prep_id, outcome)
    /\ UNCHANGED <<cache, now>>

\* synthesize_sales_brief called with its four parameters: the state of a
\* request at that call
SynthInit ==
    /\ \E c \in CompanyNames, o \in {"demo", "renewal"}, d \in {PkgFull, REmptyDict}, h \in BOOLEAN :
          req = [r \in Requests |->
                   IF r = 1
                   THEN [IdleRequest EXCEPT !.pc = "synth_run",
                                            !.company_name = c,
                                            !.meeting_objective = o,
                                            !.normalized_company_name = normalize_company_name(c),
                                            !.research_data = d,
                                            !.cache_hit = h,
                                            !.user_profile = "found",
                                            !.synth_called = TRUE,
                                            !.synth_research_data = d]
                   ELSE OffRequest]
    /\ cache = {}
    /\ meeting_preps = <<>>
    /\ now = 0

SynthNext ==
    \/ \E r \in Requests : SynthRun(r)
    \/ \E r \in Requests : SynthWake(r)
    \/ \E r \in Requests : Persist(r)

SynthSpec == SynthInit /\ [][SynthNext]_vars

---------------------------------------------------------------------------
(* The two retry runners on their own: one request is inside run_with_retry *)
(* (research) or run_agent_with_retry (synthesis), called with max_retries. *)

RetryLimits == {1, MAX_RETRIES, WideRetries}

RetryInit ==
    /\ \E pc0 \in {"research", "synth_run"}, m \in RetryLimits :
          req = [r \in Requests |->
                   IF r = 1
                   THEN [IdleRequest EXCEPT !.pc = pc0,
                                            !.company_name = <<"A", "c">>,
                                            !.meeting_objective = "demo",
                                            !.normalized_company_name = normalize_company_name(<<"A", "c">>),
                                            !.max_retries = m]
                   ELSE OffRequest]
    /\ cache = {}
    /\ meeting_preps = <<>>
    /\ now = 0

RetryNext ==
    \/ \E r \in Requests : Research(r)
    \/ \E r \in Requests : ResearchWake(r)
    \/ \E r \in Requests : SynthRun(r)
    \/ \E r \in Requests : SynthWake(r)

RetrySpec == RetryInit /\ [][RetryNext]_vars

---------------------------------------------------------------------------
(* normalize_company_name on its own: a name is normalised, and the         *)
(* identity is given back as a name and normalised again.                   *)

NameAlphabet == {"A", "a", "1", " ", "-", "!", "E_ACUTE", "KELVIN", "IDOT"}

NameInputs == UNION { [1..n -> NameAlphabet] : n \in 0..MaxNameLen }

NormInit ==
    /\ \E x \in NameInputs :
          req = [r \in Requests |->
                   IF r = 1 THEN [IdleRequest EXCEPT !.pc = "name", !.company_name = x]
                   ELSE OffRequest]
    /\ cache = {}
    /\ meeting_preps = <<>>
    /\ now = 0

\* prep.py:97: normalized_company_name = normalize_company_name(company_name)
Normalize(r) ==
    /\ req[r].pc \in {"name", "name_again"}
    /\ req' = [req EXCEPT ![r].normalized_company_name = normalize_company_name(req[r].company_name),
                          ![r].pc = IF req[r].pc = "name" THEN "identity" ELSE "identity_again"]
    /\ UNCHANGED <<cache, meeting_preps, now>>

\* the identity comes back as a company name
Resubmit(r) ==
    /\ req[r].pc = "identity"
    /\ req' = [req EXCEPT ![r].company_name = req[r].normalized_company_name,
                          ![r].pc = "name_again"]
    /\ UNCHANGED <<cache, meeting_preps, now>>

NormNext ==
    \/ \E r \in Requests : Normalize(r)
    \/ \E r \in Requests : Resubmit(r)

NormSpec == NormInit /\ [][NormNext]_vars

---------------------------------------------------------------------------
(* Two requests of one process for the same identity, received while       *)
(* company_cache has no row for it: one is about to look the identity up,  *)
(* the other has missed and is in the last attempt of its research run     *)
(* after two server errors.                                                *)

ConcInit ==
    /\ req = [r \in Requests |->
                IF r = 1
                THEN [IdleRequest EXCEPT !.pc = "lookup",
                                         !.company_name = <<"A", "c">>,
                                         !.meeting_objective = "demo",
                                         !.normalized_company_name =
                                             normalize_company_name(<<"A", "c">>)]
                ELSE IF r = 2
                THEN [IdleRequest EXCEPT !.pc = "research",
                                         !.company_name = <<"a", "c", "!">>,
                                         !.meeting_objective = "demo",
                                         !.normalized_company_name =
                                             normalize_company_name(<<"a", "c", "!">>),
                                         !.lookup_read = "empty",
                                         !.attempt = MAX_RETRIES - 1,
                                         !.last_error = {"500"},
                                         !.retry = RetrySlept(RetrySlept(NoRetry, 1), 2)]
                ELSE OffRequest]
    /\ cache = {}
    /\ meeting_preps = <<>>
    /\ now = 0

ConcNext ==
    \/ Tick
    \/ \E r \in Requests : Lookup(r)
    \/ \E r \in Requests : Research(r)
    \/ \E r \in Requests : ResearchWake(r)
    \/ \E r \in Requests : CacheWrite(r)

ConcSpec == ConcInit /\ [][ConcNext]_vars

---------------------------------------------------------------------------
(* The research agent's tool calls on their own: a request is inside        *)
(* agent.run(), and the agent calls tools in any order, any number of       *)
(* times.                                                                   *)

ToolInit ==
    /\ req = [r \in Requests |->
                IF r = 1
                THEN [IdleRequest EXCEPT !.pc = "agent_run",
                                         !.company_name = <<"A", "c">>,
                                         !.meeting_objective = "demo",
                                         !.normalized_company_name =
                                             normalize_company_name(<<"A", "c">>),
                                         !.lookup_read = "empty"]
                ELSE OffRequest]
    /\ cache = {}
    /\ meeting_preps = <<>>
    /\ now = 0

CallWebSearch(r) ==
    /\ req[r].pc = "agent_run"
    /\ \E response \in SearchResponses, num_results \in {1, 10} :
          req' = [req EXCEPT ![r].tool_call =
                     [NoToolCall EXCEPT !.tool = "web_search",
                                        !.response = response,
                                        !.result = web_search(response, num_results)]]
    /\ UNCHANGED <<cache, meeting_preps, now>>

CallScrapeWebsite(r) ==
    /\ req[r].pc = "agent_run"
    /\ \E page \in PageResponses :
          req' = [req EXCEPT ![r].tool_call =
                     [NoToolCall EXCEPT !.tool = "scrape_website",
                                        !.page = page,
                                        !.result = scrape_website(page)]]
    /\ UNCHANGED <<cache, meeting_preps, now>>

CallGetCompanyLinkedin(r) ==
    /\ req[r].pc = "agent_run"
    /\ \E actor \in ActorOutcomes :
          req' = [req EXCEPT ![r].tool_call =
                     [NoToolCall EXCEPT !.tool = "get_company_linkedin",
                                        !.actor = actor,
                                        !.result = get_company_linkedin(actor)]]
    /\ UNCHANGED <<cache, meeting_preps, now>>

CallSearchLinkedinProfile(r) ==
    /\ req[r].pc = "agent_run"
    /\ \E response \in SearchResponses, actor \in ActorOutcomes :
          LET result == search_linkedin_profile(response, actor) IN
          req' = [req EXCEPT ![r].tool_call =
                     [NoToolCall EXCEPT !.tool = "search_linkedin_profile",
                                        !.response = response,
                                        !.actor = IF result.scraper_called THEN actor
                                                  ELSE NoToolCall.actor,
                                        !.result = result]]
    /\ UNCHANGED <<cache, meeting_preps, now>>

CallScrapeLinkedinPosts(r) ==
    /\ req[r].pc = "agent_run"
    /\ \E actor \in ActorOutcomes :
          req' = [req EXCEPT ![r].tool_call =
                     [NoToolCall EXCEPT !.tool = "scrape_linkedin_posts",
                                        !.actor = actor,
                                        !.result = scrape_linkedin_posts(actor)]]
    /\ UNCHANGED <<cache, meeting_preps, now>>

ToolNext ==
    \/ \E r \in Requests : CallWebSearch(r)
    \/ \E r \in Requests : CallScrapeWebsite(r)
    \/ \E r \in Requests : CallGetCompanyLinkedin(r)
    \/ \E r \in Requests : CallSearchLinkedinProfile(r)
    \/ \E r \in Requests : CallScrapeLinkedinPosts(r)

ToolSpec == ToolInit /\ [][ToolNext]_vars

---------------------------------------------------------------------------
(* Properties *)

InUnitInterval(c) == 0 <= c /\ c <= 10

Started(r) == req[r].pc \notin {"off", "idle", "lookup"}

\* the request ended for a reason other than the profile lookup or the
\* report store
EndedOnItsOwn(r) ==
    /\ req[r].pc \in {"done", "failed"}
    /\ req[r].response.detail \notin {"User profile not found", "Database error"}

\* the row of meeting_preps a success response names
SavedRows(r) ==
    { i \in 1..Len(meeting_preps) : meeting_preps[i].id = req[r].response.prep_id }

\* C1: synthesize_sales_brief never raises and returns a PrepReport whose
\* confidences all lie in [0,1], whatever the agent does: once the call has
\* ended the request holds a report, every section confidence and the
\* overall confidence of it are in range, and no 'Synthesis error' was raised.
C1_SynthesisNeverRaises ==
    \A r \in Requests :
        (req[r].synth_called /\ req[r].pc \in {"persist", "done", "failed"}) =>
            /\ req[r].response.detail # "Synthesis error"
            /\ req[r].prep_report.kind \in {"validated", "error"}
            /\ \A s \in Sections : InUnitInterval(req[r].prep_report.conf[s])
            /\ InUnitInterval(req[r].prep_report.overall_confidence)

\* C1 witness: the agent answered a fence with no newline, the split raised
\* IndexError and the call returned the handler's zero-confidence report.
C1_Witness ==
    \E r \in Requests :
        /\ req[r].pc = "persist"
        /\ req[r].prep_report.kind = "error"
        /\ req[r].prep_report.research_limitations[1].exc = "IndexError"
        /\ req[r].prep_report.overall_confidence = 0

\* C2: once the profile is found and the synthesis step is entered, no
\* request ends in a failure caused by synthesis: a 'Synthesis error'
\* response is unreachable.
C2_NoSynthesisError ==
    \A r \in Requests :
        req[r].user_profile = "found" => req[r].response.detail # "Synthesis error"

\* C3: a request whose lookup returned a fresh entry never runs research,
\* hands synthesis the cached payload, and ends with a saved meeting_preps
\* row whose cache_hit is true.
C3_FreshHitCompletes ==
    \A r \in Requests :
        (req[r].cached_data.found /\ req[r].cached_data.cache_status = "fresh"
            /\ EndedOnItsOwn(r)) =>
            /\ ~req[r].research_result.called
            /\ req[r].synth_research_data = req[r].cached_data.company_data
            /\ req[r].pc = "done"
            /\ req[r].response.kind = "ok"
            /\ \E i \in SavedRows(r) : meeting_preps[i].cache_hit

\* C4: a request whose lookup found no entry and whose research succeeded
\* with a non-empty package writes the cache, runs synthesis on the package,
\* saves a row with cache_hit false and ends successfully.
C4_MissPathCompletes ==
    \A r \in Requests :
        (~req[r].cached_data.found /\ req[r].research_result.success
            /\ Truthy(req[r].research_result.research_data)
            /\ EndedOnItsOwn(r)) =>
            /\ req[r].cache_write # "none"
            /\ req[r].synth_research_data = req[r].research_result.research_data
            /\ req[r].pc = "done"
            /\ req[r].response.kind = "ok"
            /\ \E i \in SavedRows(r) : ~meeting_preps[i].cache_hit

\* C5: when research_company returns success=false the request ends with a
\* request-level error, and in that request no cache write, no profile
\* lookup, no synthesis and no report save took place.
C5_ResearchFailureIsFatal ==
    \A r \in Requests :
        (req[r].research_result.called /\ ~req[r].research_result.success) =>
            /\ req[r].pc = "failed"
            /\ req[r].response.kind = "error"
            /\ req[r].response.status = 500
            /\ req[r].cache_write = "none"
            /\ req[r].user_profile = "unset"
            /\ ~req[r].synth_called
            /\ req[r].prep_report = NoReport
            /\ meeting_preps = <<>>

\* C5 witness: research ended in failure after the retries were used up.
C5_Witness ==
    \E r \in Requests :
        /\ req[r].research_result.called
        /\ ~req[r].research_result.success
        /\ req[r].attempt = MAX_RETRIES - 1
        /\ req[r].response.detail = "Research error"

\* C6: a stale entry or a miss always leads to a research run of the same
\* request; what synthesis is given is then the output of that run, never
\* the stale payload; and when the run fails the request fails without
\* synthesis.
C6_StaleNeverUsed ==
    \A r \in Requests :
        (Started(r) /\ req[r].cached_data.cache_status # "fresh") =>
            /\ req[r].pc \in {"research", "research_sleep"} \/ req[r].research_result.called
            /\ ~req[r].cache_hit
            /\ req[r].synth_called =>
                   /\ req[r].research_result.success
                   /\ req[r].synth_research_data = req[r].research_result.research_data
            /\ (req[r].research_result.called /\ ~req[r].research_result.success) =>
                   (req[r].pc = "failed" /\ ~req[r].synth_called)

\* C6 witness: the lookup returned a stale entry, research ran, and synthesis
\* was called with the researched package, which differs from the stale one.
C6_Witness ==
    \E r \in Requests :
        /\ req[r].cached_data.cache_status = "stale"
        /\ req[r].synth_called
        /\ req[r].synth_research_data = req[r].research_result.research_data
        /\ req[r].synth_research_data # req[r].cached_data.company_data

WritesNow(r) == req[r].pc = "cache_write" /\ req'[r].cache_write = "ok"

\* C8: the cache holds at most one row per identity; a successful write for
\* identity X leaves exactly the written row for X, and no other step and no
\* write for another identity changes the row of X: the row of X is that of
\* the most recent successful write for X.
C8_UpsertKeepsOneRow ==
    /\ [](\A id \in Identities : Cardinality(RowsOf(cache, id)) <= 1)
    /\ [][\A id \in Identities :
            /\ \A r \in Requests :
                  (WritesNow(r) /\ req[r].normalized_company_name = id) =>
                      RowsOf(cache', id) =
                          { [company_name_normalized |-> id,
                             company_data |-> req[r].research_data,
                             confidence_score |-> ClampConfidence(req[r].research_result.confidence_score),
                             last_updated |-> now,
                             source_urls |-> req[r].research_result.sources_used] }
            /\ (~\E r \in Requests : WritesNow(r) /\ req[r].normalized_company_name = id) =>
                  RowsOf(cache', id) = RowsOf(cache, id)]_vars

\* C8 witness: identity X had a row from an earlier write (the lookup found
\* it, stale), the request wrote X again with another payload, and the cache
\* holds one row for X, with the later payload.
C8_Witness ==
    \E r \in Requests :
        /\ req[r].cached_data.found
        /\ req[r].cache_write = "ok"
        /\ req[r].research_data # req[r].cached_data.company_data
        /\ Cardinality(RowsOf(cache, req[r].normalized_company_name)) = 1
        /\ \A row \in RowsOf(cache, req[r].normalized_company_name) :
              row.company_data = req[r].research_data

\* C9: the confidence a cache write persists is max(0, min(1, confidence)):
\* above 1 it is 1.0, below 0 it is 0.0, otherwise unchanged; every row of
\* the cache has its confidence in [0,1].
C9_ConfidenceClamped ==
    /\ \A row \in cache : InUnitInterval(row.confidence_score)
    /\ \A r \in Requests :
          req[r].cache_write = "ok" =>
              \A row \in RowsOf(cache, req[r].normalized_company_name) :
                  LET c == req[r].research_result.confidence_score IN
                  row.confidence_score = IF c > 10 THEN 10 ELSE IF c < 0 THEN 0 ELSE c

\* C9 witness: a research result of confidence 1.7 was written and the row
\* holds 1.0.
C9_Witness ==
    \E r \in Requests :
        /\ req[r].cache_write = "ok"
        /\ req[r].research_result.confidence_score = 17
        /\ \E row \in RowsOf(cache, req[r].normalized_company_name) :
              row.confidence_score = 10

\* C10: a failed cache write does not raise, and the request that attempted
\* it still goes on to the profile lookup, synthesis and persistence with
\* the researched payload, ending successfully.
C10_CacheWriteFailureNonFatal ==
    \A r \in Requests :
        (req[r].cache_write = "failed" /\ EndedOnItsOwn(r)) =>
            /\ req[r].user_profile = "found"
            /\ req[r].synth_research_data = req[r].research_result.research_data
            /\ req[r].pc = "done"
            /\ req[r].response.kind = "ok"

\* C11: get_cached_company_data answers None without raising both when the
\* identity has no row and when the datastore read throws, and create_prep
\* then takes the miss path: no cache hit, and research runs in that request.
C11_ReadFailureIsMiss ==
    \A r \in Requests :
        req[r].lookup_read \in {"threw", "empty"} =>
            /\ req[r].response.detail # "Internal Server Error"
            /\ req[r].cached_data = NoCached
            /\ ~req[r].cache_hit
            /\ req[r].pc \in {"research", "research_sleep"} \/ req[r].research_result.called

\* C11 witness: the read threw although the identity has a fresh row, and
\* the request went on to research and got its result.
C11_Witness ==
    \E r \in Requests :
        /\ req[r].lookup_read = "threw"
        /\ \E row \in RowsOf(cache, req[r].normalized_company_name) :
              IsFresh(row.last_updated, req[r].lookup_time)
        /\ req[r].research_result.called
        /\ req[r].research_result.success

\* the program points inside a retry runner
RunnerPcs == {"research", "research_sleep", "synth_run", "synth_sleep"}

\* in this step request r called agent.run() and the call threw
FailsNow(r) ==
    /\ req'[r].retry.invocations = req[r].retry.invocations + 1
    /\ req'[r].retry.ended # "returned"

\* once a runner has returned or raised it calls agent.run() no more
NoInvocationAfterEnd(r) ==
    req[r].retry.ended # "no" => req'[r].retry = req[r].retry

\* C12: an invocation that throws an error whose message holds both
\* 'invalid' and 'argument' ends the runner in that step: the error is
\* re-raised, no delay is taken for it, and no invocation follows (on the
\* first attempt that makes exactly one invocation).
C12_InvalidArgumentNotRetried ==
    [][\A r \in Requests :
          /\ (FailsNow(r) /\ {"invalid", "argument"} \subseteq req'[r].last_error) =>
                 /\ req'[r].retry.ended = "raised"
                 /\ req'[r].retry.raised = req'[r].last_error
                 /\ req'[r].retry.delays = req[r].retry.delays
                 /\ req'[r].pc \notin RunnerPcs
          /\ req[r].retry.ended = "raised" => req'[r].retry = req[r].retry]_vars

\* C12 witness: the first attempt threw an invalid-argument error and the
\* runner raised it after one invocation and no delay.
C12_Witness ==
    \E r \in Requests :
        /\ req[r].retry.ended = "raised"
        /\ req[r].retry.raised = {"invalid", "argument"}
        /\ req[r].retry.invocations = 1
        /\ req[r].retry.delays = <<>>

\* an error with no invalid-argument, quota or billing marker
GenericTransient(e) ==
    /\ ~({"invalid", "argument"} \subseteq e)
    /\ "quota" \notin e
    /\ "billing" \notin e

\* C13: the runner never calls the agent more than max_retries times and
\* never again after it returned; a generic transient failure on an attempt
\* before the last keeps the runner going, and on the last attempt makes it
\* raise that error, so that failing every time gives exactly max_retries
\* invocations and then the last error.
C13_AttemptCount ==
    /\ [](\A r \in Requests : req[r].retry.invocations <= req[r].max_retries)
    /\ [][\A r \in Requests :
            /\ NoInvocationAfterEnd(r)
            /\ (FailsNow(r) /\ GenericTransient(req'[r].last_error)) =>
                   IF req'[r].retry.invocations < req[r].max_retries
                   THEN req'[r].retry.ended = "no" /\ req'[r].pc \in RunnerPcs
                   ELSE /\ req'[r].retry.ended = "raised"
                        /\ req'[r].retry.raised = req'[r].last_error
                        /\ req'[r].retry.invocations = req[r].max_retries]_vars

\* C13 witness: with the default max_retries the agent failed three times
\* with generic errors and the runner raised the last one.
C13_Witness ==
    \E r \in Requests :
        /\ req[r].max_retries = 3
        /\ req[r].retry.invocations = 3
        /\ req[r].retry.delays = <<1, 2>>
        /\ req[r].retry.ended = "raised"
        /\ req[r].retry.raised = {"503"}

\* C14: an invocation that throws an error holding 'quota' or 'billing' (and
\* not invalid-argument) ends the runner at once with that error, also when
\* the message holds '429' or 'rate limit': no delay and no further attempt.
C14_QuotaNotRetried ==
    \A r \in Requests :
        (/\ req[r].retry.invocations > 0
         /\ ("quota" \in req[r].last_error \/ "billing" \in req[r].last_error)
         /\ ~({"invalid", "argument"} \subseteq req[r].last_error)) =>
            /\ req[r].retry.ended = "raised"
            /\ req[r].retry.raised = req[r].last_error
            /\ Len(req[r].retry.delays) < req[r].retry.invocations

\* the delay the schedule gives after a failure with error e on attempt a
ScheduledDelay(a, e) ==
    LET base == CASE a = 0 -> 1 [] a = 1 -> 2 [] a = 2 -> 4 [] a = 3 -> 8
                  [] a = 4 -> 16 [] a = 5 -> 32 [] OTHER -> 64 IN
    IF "429" \in e \/ "rate limit" \in e
    THEN (IF 2 * base < 30 THEN 2 * base ELSE 30)
    ELSE base

\* C15: a failure on attempt a < max_retries - 1 after which the runner goes
\* on is followed by one delay of 2^a seconds, or of min(2 * 2^a, 30) when
\* the error holds '429' or 'rate limit'; a failure on the final attempt
\* takes no delay and raises that error.
C15_BackoffSchedule ==
    [][\A r \in Requests :
          FailsNow(r) =>
              LET a == req[r].retry.invocations IN
              /\ a + 1 < req[r].max_retries /\ req'[r].retry.ended = "no" =>
                     req'[r].retry.delays =
                         Append(req[r].retry.delays, ScheduledDelay(a, req'[r].last_error))
              /\ req'[r].retry.ended = "raised" =>
                     req'[r].retry.delays = req[r].retry.delays
              /\ a + 1 = req[r].max_retries =>
                     /\ req'[r].retry.ended = "raised"
                     /\ req'[r].retry.raised = req'[r].last_error
                     /\ req'[r].retry.delays = req[r].retry.delays]_vars

\* C15 witness: five rate-limited failures were followed by the delays 2, 4,
\* 8, 16 and 30 (the cap), and the sixth and final failure was raised.
C15_Witness ==
    \E r \in Requests :
        /\ req[r].max_retries >= 6
        /\ req[r].retry.delays # <<>>
        /\ Len(req[r].retry.delays) >= 5
        /\ SubSeq(req[r].retry.delays, 1, 5) = <<2, 4, 8, 16, 30>>
        /\ req[r].retry.ended = "raised"
        /\ req[r].retry.invocations = req[r].max_retries

\* every document in its fenced forms
FencedForms ==
    { [text |-> FenceWrap(body, tagged), body |-> body] :
         body \in JsonDocuments, tagged \in BOOLEAN }

\* stripping the fence of a fenced form and parsing gives what parsing the
\* bare document gives
FencedParsesAsBare ==
    \A f \in FencedForms :
        /\ StripFence(f.text).ok
        /\ JsonLoads(f.body).ok
        /\ JsonLoads(StripFence(f.text).text) = JsonLoads(f.body)

\* C16: a text result that is a JSON document between a leading fence line
\* (tagged json or not) and a trailing fence parses to what the bare
\* document parses to, for every document, and a request whose agent
\* answered the fenced form holds the report the bare form gives.
C16_FenceStripping ==
    /\ FencedParsesAsBare
    /\ \A r \in Requests :
          (req[r].retry.ended = "returned" /\ ResultData(req[r].result, SNull).isstr) =>
              \A f \in { g \in FencedForms : g.text = ResultData(req[r].result, SNull).text } :
                  LET mo == req[r].meeting_objective
                      bare == RawResult({"output"}, StrPayload(f.body, SNull), <<>>) IN
                  /\ req[r].response.detail # "Synthesis error"
                  /\ req[r].prep_report =
                         SynthesisOutcome(mo, CoerceSynthesis(mo, bare), NoError).report

\* C16 witness: the agent answered a json-tagged fenced document that itself
\* holds a fence inside a string, and the request holds the validated report
\* of that document.
C16_Witness ==
    \E r \in Requests :
        /\ req[r].retry.ended = "returned"
        /\ ResultData(req[r].result, SNull).isstr
        /\ ResultData(req[r].result, SNull).text = FenceWrap(SplitDoc(BaseDict, "fence"), TRUE)
        /\ req[r].prep_report = ReportOf(BaseDict)

\* a value of the valid PrepReport shape
ValidShape(v) ==
    /\ v.t = "dict"
    /\ v.present = Sections
    /\ \A sec \in Sections : InUnitInterval(v.conf[sec])
    /\ v.has_overall
    /\ InUnitInterval(v.overall)
    /\ v.fields_ok

\* C17: when the agent's result is the wrapper {"prep_report": R} with R of
\* the valid shape, delivered as JSON text or as a native object, the
\* request holds R as its validated report.
C17_WrapperUnwrapped ==
    \A r \in Requests :
        req[r].retry.ended = "returned" =>
            LET rd == ResultData(req[r].result, SNull) IN
            \A w \in { x \in SynthValues : x.wrap = 1 /\ ValidShape(x) } :
                (\/ ~rd.isstr /\ rd.obj = w
                 \/ rd.isstr /\ rd.text = <<SDoc(w)>>) =>
                    /\ req[r].prep_report.kind = "validated"
                    /\ req[r].prep_report.conf = w.conf
                    /\ req[r].prep_report.overall_confidence = w.overall

\* the synthesis call of request r has ended
SynthesisEnded(r) ==
    req[r].synth_called /\ req[r].retry.ended # "no" /\ req[r].pc \in {"persist", "done", "failed"}

\* the shape of an error report
ErrorShaped(rep) ==
    /\ rep.kind = "error"
    /\ DOMAIN rep.conf = Sections
    /\ \A sec \in Sections : rep.conf[sec] = 0
    /\ rep.overall_confidence = 0
    /\ rep.items = 0
    /\ rep.research_limitations # <<>>

\* C18: once synthesis has ended the request holds either the validated
\* report of a value of the valid shape or an error report: six sections,
\* no list item, every confidence 0 and a non-empty research_limitations.
\* A runner that raised, an unparseable text, a value that is no dict and a
\* dict that fails validation all give the error report, and a value that
\* fails validation never gives a validated report.
C18_ErrorReportShape ==
    \A r \in Requests :
        SynthesisEnded(r) =>
            LET rd == ResultData(req[r].result, SNull)
                rep == req[r].prep_report IN
            /\ rep.kind \in {"validated", "error"}
            /\ rep.kind = "error" => ErrorShaped(rep)
            /\ rep.kind = "validated" =>
                   /\ req[r].retry.ended = "returned"
                   /\ \A sec \in Sections : InUnitInterval(rep.conf[sec])
                   /\ InUnitInterval(rep.overall_confidence)
                   /\ ~rd.isstr => (ValidShape(rd.obj) /\ rd.obj.wrap = 0)
                   /\ (rd.isstr /\ Len(rd.text) = 1 /\ rd.text[1].k = "doc") =>
                          ValidShape(rd.text[1].v)
            /\ req[r].retry.ended = "raised" =>
                   (ErrorShaped(rep) /\ rep.research_limitations[1].markers = req[r].retry.raised)
            /\ (req[r].retry.ended = "returned" /\ ~rd.isstr /\ ~ValidShape(rd.obj)) =>
                   ErrorShaped(rep)
            /\ (req[r].retry.ended = "returned" /\ rd.isstr
                    /\ \A i \in 1..Len(rd.text) : rd.text[i].k \notin {"doc", "dochead"}) =>
                   ErrorShaped(rep)

\* C18 witness: the agent answered a dict whose overall_confidence is 1.7
\* and the request holds the error report of the failed validation.
C18_Witness ==
    \E r \in Requests :
        /\ SynthesisEnded(r)
        /\ ~ResultData(req[r].result, SNull).isstr
        /\ ResultData(req[r].result, SNull).obj = [BaseDict EXCEPT !.overall = 17]
        /\ ErrorShaped(req[r].prep_report)
        /\ req[r].prep_report.research_limitations[1].exc = "ValidationError"

\* C19: research_company never raises; when the agent's text cannot be
\* parsed as JSON, and when the retry runner gave up, it returns
\* success=false with confidence_score 0.0, research_data null and an error.
C19_ResearchFailureRecord ==
    \A r \in Requests :
        LET res == req[r].research_result
            rd == ResultData(res.raw, RNull) IN
        (/\ res.called
         /\ \/ req[r].retry.ended = "raised"
            \/ /\ rd.isstr
               /\ \A i \in 1..Len(rd.text) : rd.text[i].k # "doc") =>
            /\ ~res.success
            /\ res.confidence_score = 0
            /\ res.research_data = RNull
            /\ res.failed

\* C20: when the insert of the report throws or answers with no row, the
\* request ends with a request-level error and no success response; every
\* success response carries the id of a row of meeting_preps that holds the
\* request's report.
C20_SaveFailureIsFatal ==
    \A r \in Requests :
        /\ req[r].save \in {"threw", "no_data", "inserted_no_data"} =>
               /\ req[r].pc = "failed"
               /\ req[r].response.kind = "error"
               /\ req[r].response.status = 500
               /\ req[r].response.prep_id = 0
        /\ req[r].response.kind = "ok" =>
               /\ req[r].save = "inserted"
               /\ req[r].response.prep_id \in 1..Len(meeting_preps)
               /\ meeting_preps[req[r].response.prep_id].id = req[r].response.prep_id
               /\ meeting_preps[req[r].response.prep_id].prep_data = req[r].prep_report
               /\ meeting_preps[req[r].response.prep_id].cache_hit = req[r].response.cache_hit

\* C20 witness: a validated report was generated, the insert threw, and the
\* request ended with 'Database error' and no row.
C20_Witness ==
    \E r \in Requests :
        /\ req[r].prep_report.kind = "validated"
        /\ req[r].save = "threw"
        /\ req[r].response.detail = "Database error"
        /\ meeting_preps = <<>>

\* C21: normalising an identity gives the identity back:
\* normalize_company_name(normalize_company_name(x)) = normalize_company_name(x).
C21_NormalizeIdempotent ==
    \A r \in Requests :
        req[r].pc = "identity_again" =>
            req[r].normalized_company_name = req[r].company_name

\* C21 witness: the name "!A 1" gave a-1, and a-1 normalised again is a-1.
C21_Witness ==
    \E r \in Requests :
        /\ req[r].pc = "identity_again"
        /\ req[r].company_name = <<"a", "-", "1">>
        /\ req[r].normalized_company_name = <<"a", "-", "1">>

\* lowercase ASCII letters and digits
AsciiLowerAlnum == {"a", "b", "c", "i", "k", "0", "1"}

\* ASCII letters and digits of the name alphabet
AsciiAlnum == {"A", "a", "1"}

\* the lowercase form of a name: A-Z to a-z, the Kelvin sign to k, the
\* dotted capital I to i and a combining dot
RECURSIVE Lowercased(_)
Lowercased(x) ==
    IF x = <<>> THEN <<>>
    ELSE (CASE Head(x) = "A" -> <<"a">>
            [] Head(x) = "KELVIN" -> <<"k">>
            [] Head(x) = "IDOT" -> <<"i", "DOT">>
            [] OTHER -> <<Head(x)>>) \o Lowercased(Tail(x))

\* the maximal runs of a-z/0-9 of s joined by one hyphen each
RECURSIVE JoinedRuns(_, _)
JoinedRuns(s, out) ==
    IF s = <<>> THEN out
    ELSE IF Head(s) \in AsciiLowerAlnum
    THEN JoinedRuns(Tail(s), out \o <<Head(s)>>)
    ELSE IF out # <<>> /\ out[Len(out)] # "-" /\ \E i \in 1..Len(s) : s[i] \in AsciiLowerAlnum
    THEN JoinedRuns(Tail(s), out \o <<"-">>)
    ELSE JoinedRuns(Tail(s), out)

\* the shape of an identity: a-z, 0-9 and hyphens, no hyphen at either end
\* and no two hyphens side by side
IdentityShaped(id) ==
    /\ \A i \in 1..Len(id) : id[i] \in AsciiLowerAlnum \cup {"-"}
    /\ id # <<>> => (id[1] # "-" /\ id[Len(id)] # "-")
    /\ \A i \in 1..(Len(id) - 1) : ~(id[i] = "-" /\ id[i + 1] = "-")

OutputParsed(raw) ==
    LET rd == ResultData(raw, RNull) IN
    rd.isstr => JsonLoads(rd.text).ok

\* C23: cache_company_data is called only in a request whose research run
\* reported success with a non-empty payload, and never with the placeholder
\* record that stands in for an output that could not be parsed.
C23_CacheWriteOnlyAfterGoodResearch ==
    \A r \in Requests :
        (req[r].pc = "cache_write" \/ req[r].cache_write # "none") =>
            /\ req[r].research_result.success
            /\ Truthy(req[r].research_data)
            /\ OutputParsed(req[r].research_result.raw)
            /\ req[r].research_data # ResearchPlaceholder

\* what the synthesizer's coercion (sales_synthesizer/agent.py:190-202)
\* makes of a text: the fence stripped, then json.loads
SynthesizerParse(text) ==
    LET stripped == StripFence(text) IN
    IF stripped.ok THEN JsonLoads(stripped.text) ELSE [ok |-> FALSE]

\* C26: a research result that is text is coerced as the synthesizer coerces
\* a text: when the text with its Markdown fence stripped is JSON, the record
\* carries the object that JSON denotes, with its sources and confidence.
C26_ResearchStripsFence ==
    \A r \in Requests :
        LET res == req[r].research_result
            rd == ResultData(res.raw, RNull)
        IN  (res.called /\ res.success /\ rd.isstr /\ SynthesizerParse(rd.text).ok) =>
                LET v == SynthesizerParse(rd.text).v IN
                /\ res.research_data = v
                /\ v.t = "dict" =>
                       /\ res.confidence_score = GetConfidence(v)
                       /\ res.sources_used = GetSources(v)

\* the phase of create_prep a request is in: 1 lookup, 2 research, 3 cache
\* write, 4 profile read and the call of the synthesizer, 5 synthesis,
\* 6 persistence, 7 answered
Phase(pc) ==
    CASE pc \in {"off", "idle"} -> 0
      [] pc = "lookup" -> 1
      [] pc \in {"research", "research_sleep"} -> 2
      [] pc = "cache_write" -> 3
      [] pc \in {"profile", "synth_call"} -> 4
      [] pc \in {"synth_run", "synth_sleep"} -> 5
      [] pc = "persist" -> 6
      [] OTHER -> 7

\* what a request in a phase has behind it
EarlierPhasesFinished(r) ==
    LET ph == Phase(req[r].pc) IN
    /\ ph \in 2..6 => req[r].lookup_read # "none"
    /\ ph = 2 => (~req[r].cache_hit /\ ~req[r].research_result.called)
    /\ (ph \in 3..6 /\ ~req[r].cache_hit) =>
           (req[r].research_result.called /\ req[r].retry.ended = "returned")
    /\ ph = 3 => req[r].cache_write = "none"
    /\ (ph \in 4..6 /\ ~req[r].cache_hit /\ Truthy(req[r].research_data)) =>
           req[r].cache_write # "none"
    /\ ph = 6 => req[r].prep_report # NoReport

\* C24: within one request the phases run in the order lookup, research,
\* cache write, synthesis, persistence: a request never moves to an earlier
\* phase, so each phase is started at most once; inside the research phase
\* the count of agent invocations only grows (a retry is inside the one
\* start); and a request in a phase has the earlier phases finished.
C24_PhaseOrder ==
    /\ [](\A r \in Requests : EarlierPhasesFinished(r))
    /\ [][\A r \in Requests :
            /\ Phase(req'[r].pc) >= Phase(req[r].pc)
            /\ (Phase(req[r].pc) = 2 /\ Phase(req'[r].pc) = 2) =>
                   req'[r].retry.invocations >= req[r].retry.invocations
            /\ (req[r].research_result.called => req'[r].research_result = req[r].research_result)
            /\ (req[r].cache_write # "none" => req'[r].cache_write = req[r].cache_write)]_vars

\* C24 witness: a request that missed, whose research was retried once and
\* then succeeded, whose result was cached, whose profile was read and whose
\* synthesizer call was made
C24_Witness ==
    \E r \in Requests :
        /\ req[r].lookup_read = "empty"
        /\ req[r].retry.invocations = 2
        /\ req[r].research_result.success
        /\ req[r].cache_write = "ok"
        /\ req[r].user_profile = "found"
        /\ Phase(req[r].pc) = 7
        /\ req[r].response.detail = "Synthesis error"

\* the row create_prep hands to cache_company_data for request r at time t
WrittenRow(r, t) ==
    CacheRow(req[r].normalized_company_name, req[r].research_data,
             req[r].research_result.confidence_score,
             req[r].research_result.sources_used, t)

\* C25: two requests for the same identity that both missed and both
\* researched both write; after any write the identity has exactly one row,
\* and that row is the row of the write that came last, its payload,
\* confidence and sources all of that one write; a request whose research
\* succeeded goes on with its own result, whatever the other request wrote.
C25_LastWriterWins ==
    /\ [](\A id \in Identities : Cardinality(RowsOf(cache, id)) <= 1)
    /\ [](\A row \in cache : \E r \in Requests :
              /\ req[r].cache_write = "ok"
              /\ row = WrittenRow(r, row.last_updated))
    /\ [](\A r \in Requests :
              (req[r].research_result.called /\ req[r].research_result.success) =>
                  /\ req[r].pc \in {"cache_write", "profile"}
                  /\ req[r].research_data = req[r].research_result.research_data)
    /\ [][\A r \in Requests :
            WritesNow(r) =>
                RowsOf(cache', req[r].normalized_company_name) = {WrittenRow(r, now)}]_vars

\* C25 witness: both requests missed and both wrote, with different research
\* results; the one row is the row request 1 wrote at time 1, and request 2
\* holds its own result
C25_Witness ==
    /\ req[1].lookup_read = "empty" /\ req[2].lookup_read = "empty"
    /\ req[1].cache_write = "ok" /\ req[2].cache_write = "ok"
    /\ req[1].research_data # req[2].research_data
    /\ cache = {WrittenRow(1, 1)}
    /\ req[2].research_data = req[2].research_result.research_data

\* request q, which is not waiting for a delay, can take its next step
CanStep(q) ==
    ENABLED (\/ Lookup(q) \/ Research(q) \/ CacheWrite(q) \/ Profile(q)
             \/ SynthCall(q) \/ SynthRun(q) \/ Persist(q))

\* C27: while a request waits out the delay between two attempts of a retry
\* runner, in the research phase or in the synthesis phase, every other
\* request of the process that has a step to take can take it.
C27_DelaySuspendsOnlyCaller ==
    \A r, q \in Requests :
        (/\ r # q
         /\ req[r].pc \in {"research_sleep", "synth_sleep"}
         /\ req[q].pc \in {"lookup", "research", "cache_write", "profile",
                           "synth_call", "synth_run", "persist"}) =>
            CanStep(q)

\* on every failure the two runners decide alike
SameDecisions ==
    \A a \in 0..WideRetries, m \in RetryLimits, e \in SUBSET Markers :
        run_with_retry_step(a, e, m) = run_agent_with_retry_step(a, e, m)

\* what the runner the request is not in decides for the failure of this step
OtherRunnerStep(r) ==
    IF req[r].pc = "research"
    THEN run_agent_with_retry_step(req[r].retry.invocations, req'[r].last_error,
                                   req[r].max_retries)
    ELSE run_with_retry_step(req[r].retry.invocations, req'[r].last_error,
                             req[r].max_retries)

\* C29: run_with_retry and run_agent_with_retry behave alike: for every
\* attempt number, error and max_retries they take the same decision, and
\* each step of a run of one of them is the step the other would take from
\* the same history: the same delay appended and the run going on, or the
\* run ended with that error raised and no delay taken.
C29_RunnersEquivalent ==
    /\ []SameDecisions
    /\ [][\A r \in Requests :
            FailsNow(r) =>
                LET other == OtherRunnerStep(r) IN
                IF other.act = "sleep"
                THEN /\ req'[r].retry.ended = "no"
                     /\ req'[r].retry.delays = Append(req[r].retry.delays, other.delay)
                ELSE /\ req'[r].retry.ended = "raised"
                     /\ req'[r].retry.raised = req'[r].last_error
                     /\ req'[r].retry.delays = req[r].retry.delays]_vars

\* C29 witness: a run with max_retries 3 whose first error was a rate limit
\* (delay 2) and whose second was not (delay 2), and which raised the third
C29_Witness ==
    \E r \in Requests :
        /\ req[r].max_retries = MAX_RETRIES
        /\ req[r].retry.delays = <<2, 2>>
        /\ req[r].retry.invocations = 3
        /\ req[r].retry.ended = "raised"
        /\ req[r].retry.raised = req[r].last_error

\* C30: reading the cache changes nothing: the lookup step leaves
\* company_cache as it was, a request served from a fresh entry never runs
\* research and never writes to the cache, every change of company_cache is
\* the write of a request that researched, and the entry a request was
\* served from keeps the last_updated it was read with, so that its age
\* goes on counting from the write.
C30_FreshHitLeavesCache ==
    /\ [](\A r \in Requests :
              req[r].cache_hit =>
                  /\ req[r].cache_write = "none"
                  /\ req[r].pc # "cache_write"
                  /\ ~req[r].research_result.called
                  /\ \A row \in RowsOf(cache, req[r].normalized_company_name) :
                         row.last_updated = req[r].cached_data.last_updated)
    /\ [][/\ \A r \in Requests :
                (req[r].pc = "lookup" /\ req'[r].pc # "lookup") => cache' = cache
          /\ cache' # cache =>
                \E r \in Requests : WritesNow(r) /\ ~req[r].cache_hit]_vars

\* C30 witness: a request was served from an entry that was fresh when it
\* was read, the request is over, and the same entry, untouched, is now stale
C30_Witness ==
    \E r \in Requests :
        /\ req[r].cache_hit
        /\ req[r].cached_data.cache_status = "fresh"
        /\ Phase(req[r].pc) = 7
        /\ now > req[r].lookup_time
        /\ \E row \in RowsOf(cache, req[r].normalized_company_name) :
              /\ row.last_updated = req[r].cached_data.last_updated
              /\ IsFresh(row.last_updated, req[r].lookup_time)
              /\ ~IsFresh(row.last_updated, now)

\* a provider call of the tool call threw
ProviderThrew(tc) ==
    CASE tc.tool = "web_search" -> tc.response.threw
      [] tc.tool = "scrape_website" -> tc.page.k = "threw"
      [] tc.tool = "search_linkedin_profile" ->
             tc.response.threw \/ (tc.result.scraper_called /\ tc.actor.k = "threw")
      [] OTHER -> tc.actor.k = "threw"

\* the providers of the tool call answered without data: no search result,
\* a page response that reports failure or has no known shape, no result
\* link of a profile, no run or no item of an actor
ProviderNoData(tc) ==
    CASE tc.tool = "web_search" ->
             ~tc.response.threw /\ tc.response.organic = <<>> /\ tc.response.news = 0
      [] tc.tool = "scrape_website" ->
             tc.page.k \in {"obj_failure_error", "obj_failure", "dict_error",
                            "dict_other", "other"}
      [] tc.tool = "search_linkedin_profile" ->
             /\ ~tc.response.threw
             /\ \/ \A i \in 1..Len(tc.response.organic) :
                      ~ContainsProfileMark(tc.response.organic[i])
                \/ tc.result.scraper_called /\ tc.actor.k \in {"no_run", "empty"}
      [] OTHER -> tc.actor.k \in {"no_run", "empty"}

\* search_linkedin_profile runs the profile scraper exactly when the search
\* succeeded with a result link holding "linkedin.com/in/", and on the
\* first such link
ScrapesFirstProfileLink(tc) ==
    LET organic == search(tc.response, 5).organic_results IN
    /\ tc.result.scraper_called <=>
           (~tc.response.threw /\ \E i \in 1..Len(organic) : ContainsProfileMark(organic[i]))
    /\ tc.result.scraper_called =>
           \E i \in 1..Len(organic) :
               /\ tc.result.scraped = organic[i]
               /\ ContainsProfileMark(organic[i])
               /\ \A j \in 1..(i - 1) : ~ContainsProfileMark(organic[j])

====
